---------------------------- MODULE Spec2Model ----------------------------
(***************************************************************************)
(* A model of qsnap's capture-and-compare pipeline: the permit pool        *)
(* (internal/pool), the run loop of cmd/qsnap main (both variants), the    *)
(* pixel comparison (internal/diff), the capture protocol                  *)
(* (internal/snapshot) and the browser pool (internal/browser).            *)
(***************************************************************************)
EXTENDS Integers, Sequences, FiniteSets, TLC

(***************************************************************************)
(* Bounds of the model.                                                    *)
(***************************************************************************)
MaxCases == 3

\* values of the -concurrency flag that are tried (New clamps those < 1)
Concurrencies == {-1, 0, 1, 2}

Tasks == 1..MaxCases

\* len(configs) is at most this (at most MaxCases)
MaxRunCases == 2

\* values of the -concurrency flag tried in a run over the case list
RunConcurrencies == {1, 2}

\* the program is run at most this many times over one snapshot directory
MaxRuns == 2

\* Capture is given at most this many wait selectors
MaxSelectors == 2

\* the channel of ui.Run holds at most this many events (1024 in the code)
EventCap == 2

\* an image has at most this many pixels
MaxPixels == 4

\* LaunchPool is asked for at most this many instances
MaxInstances == 3

\* CloseAll is called at most this many times on one pool
MaxCloseCalls == 2

VARIABLES
    conc,       \* the -concurrency flag handed to pool.New
    cap,        \* Pool.sem: capacity of the channel
    sem,        \* Pool.sem: number of permits in the channel
    wg,         \* Pool.wg: the WaitGroup counter
    mpc,        \* the submitting goroutine's position
    next,       \* index of the task the loop is at (1-based)
    nsub,       \* number of tasks the loop submits
    tpc,        \* each task goroutine's position
    panicking,  \* tasks whose fn panicked (deferred calls still run)
    crashed,    \* the process died of an unrecovered panic
    acq,        \* history: permits acquired for task i
    rel,        \* history: permits released by task i
    dA,         \* pixelDiff: the baseline image a
    dB,         \* pixelDiff: the candidate image b
    dThr,       \* CompareFiles: pxThreshold, a fraction <<num, den>>
    dRes,       \* pixelDiff: what it returned
    ln,         \* LaunchPool: the argument n
    lpc,        \* LaunchPool / CloseAll: position
    li,         \* LaunchPool: the loop variable i
    lt,         \* the index a teardown loop is at (1-based)
    lsub,       \* which teardown function of instances[lt] is next
    procs,      \* every allocator and browser context created so far
    instances,  \* LaunchPool: the local slice instances
    lret,       \* LaunchPool: what it returned
    picked,     \* the instance the last Pick returned
    pickIdx,    \* what the last PickIdx returned: the instance and the id
    closeCalls, \* number of CloseAll calls begun
    variant,    \* which main runs: "bytes" (with -limit) or "file"
    nconfigs,   \* len(configs)
    limit,      \* the -limit flag
    cfgThreshold, \* cfg.Threshold
    results,    \* main: the slice results
    report,     \* main: the report written to report.json
    tbuf,       \* each task's buf, the captured image
    fs,         \* the snapshot directory: what each path holds
    runs,       \* number of runs of the program over the directory so far
    kvariant,   \* Capture: "bytes" (returns buf) or "file" (also writes outPath)
    knsel,      \* Capture: len(waitSelectors)
    kready,     \* the selectors the page resolves
    kpc,        \* Capture: the step in progress
    kctx,       \* the ctx argument of Capture (the task's deadline)
    kroot,      \* inst.Ctx, derived from the root context
    ktab,       \* the browsing context Capture opens
    ksel,       \* waitAny: the selector the loop is at (1-based)
    kwaitOver,  \* waitAny: time.Now() is after its deadline
    kfile,      \* outPath has been written
    kret,       \* Capture: what it returned
    tinst,      \* the browser each task picked (index in procs, 0 before Pick)
    ttab,       \* the browsing context each task opened (index in tabs, 0 for none)
    tabs,       \* every browsing context created so far
    evq,        \* ui.Run: number of events in the channel events
    uipc,       \* ui.Run: position of the goroutine that forwards events
    dropped,    \* number of events send dropped
    tev,        \* number of events each task has sent
    hpc,        \* WaitHTTP: position
    hover,      \* WaitHTTP: time.Now() is no longer before its deadline
    hret,       \* WaitHTTP: what it returned
    sdecls,     \* the case declarations of the .osnap.yaml file
    spc,        \* main: position in the setup and the submitting loop
    configs,    \* main: what FindAndParseConfigs returned
    submitted,  \* the cases handed to wp.Go so far
    srv,        \* the story server: "none", "external", "serving", "stopped"
    xpc,        \* main after wp.Wait(): position, and how the process ended
    fsent,      \* the events each task has handed to sendUI, in order
    model,      \* ui.Model: the progress model the program holds
    umsg        \* the message Model.Update was last called with

poolVars == <<conc, cap, sem, wg>>
mainVars == <<mpc, next, nsub>>
taskVars == <<tpc, panicking, crashed, acq, rel>>
diffVars == <<dA, dB, dThr, dRes>>
launchVars == <<ln, lpc, li, lt, lsub, procs, instances, lret, picked, pickIdx,
               closeCalls>>
runVars == <<variant, nconfigs, limit, cfgThreshold, results, report, tbuf, fs, runs>>
captureVars == <<kvariant, knsel, kready, kpc, kctx, kroot, ktab, ksel, kwaitOver,
                 kfile, kret>>
tabVars == <<tinst, ttab, tabs>>
eventVars == <<evq, uipc, dropped, tev>>
healthVars == <<hpc, hover, hret>>
setupVars == <<sdecls, spc, configs, submitted>>
exitVars == <<srv, xpc>>
feedVars == <<fsent, model, umsg>>
vars == <<conc, cap, sem, wg, mpc, next, nsub, tpc, panicking, crashed, acq, rel,
          dA, dB, dThr, dRes,
          ln, lpc, li, lt, lsub, procs, instances, lret, picked, pickIdx, closeCalls,
          variant, nconfigs, limit, cfgThreshold, results, report, tbuf, fs, runs,
          kvariant, knsel, kready, kpc, kctx, kroot, ktab, ksel, kwaitOver,
          kfile, kret,
          tinst, ttab, tabs,
          evq, uipc, dropped, tev,
          hpc, hover, hret,
          sdecls, spc, configs, submitted,
          srv, xpc,
          fsent, model, umsg>>

\* what an action of the scheduler, of the comparison, of the browser pool
\* leaves alone
outsideSched == <<diffVars, launchVars, runVars, captureVars,
                  tabVars, eventVars, healthVars, feedVars, exitVars, setupVars>>
outsideDiff == <<poolVars, mainVars, taskVars, launchVars, runVars, captureVars,
                  tabVars, eventVars, healthVars, feedVars, exitVars, setupVars>>
outsideLaunch == <<poolVars, mainVars, taskVars, diffVars, runVars, captureVars,
                  tabVars, eventVars, healthVars, feedVars, exitVars, setupVars>>
outsideRun == <<diffVars, launchVars, captureVars,
                  tabVars, eventVars, healthVars, feedVars, exitVars, setupVars>>
outsideCapture == <<poolVars, mainVars, taskVars, diffVars, launchVars, runVars,
                  tabVars, eventVars, healthVars, feedVars, exitVars, setupVars>>

(***************************************************************************)
(* internal/pool                                                           *)
(***************************************************************************)
NewUnclamped(concurrency) == concurrency

\* New: the capacity of the semaphore channel
New(concurrency) == IF concurrency < 1 THEN 1 ELSE concurrency

\* Go, first statement: p.wg.Add(1)
GoAdd ==
    /\ ~crashed
    /\ mpc = "loop"
    /\ next <= nsub
    /\ wg' = wg + 1
    /\ mpc' = "send"
    /\ UNCHANGED <<conc, cap, sem, next, nsub, taskVars, outsideSched>>

SemCanSendUnbounded == TRUE

\* a send on the buffered channel proceeds only when it is not full
SemCanSend == sem < cap

\* Go, p.sem <- struct{}{} and the go statement: blocks while the channel is
\* full, then starts the goroutine and returns
GoSend ==
    /\ ~crashed
    /\ mpc = "send"
    /\ SemCanSend
    /\ sem' = sem + 1
    /\ tpc' = [tpc EXCEPT ![next] = "fn"]
    /\ acq' = [acq EXCEPT ![next] = @ + 1]
    /\ next' = next + 1
    /\ mpc' = "loop"
    /\ UNCHANGED <<conc, cap, wg, nsub, panicking, crashed, rel, outsideSched>>

\* the loop over the tasks is over: the caller goes on to Wait
LoopEnd ==
    /\ ~crashed
    /\ mpc = "loop"
    /\ next > nsub
    /\ mpc' = "wait"
    /\ UNCHANGED <<poolVars, next, nsub, taskVars, outsideSched>>

ReleaseRunsNotDeferred(i) == ~panicking[i]

\* whether the receive runs for a task that leaves fn: it is deferred, so it
\* runs on a return and on a panic alike
ReleaseRuns(i) == TRUE

\* the deferred func() { <-p.sem }(): runs when fn returns and when it panics
TaskRelease(i) ==
    /\ ~crashed
    /\ tpc[i] = "release"
    /\ IF ReleaseRuns(i)
          THEN /\ sem' = sem - 1
               /\ rel' = [rel EXCEPT ![i] = @ + 1]
          ELSE UNCHANGED <<sem, rel>>
    /\ tpc' = [tpc EXCEPT ![i] = "wgdone"]
    /\ UNCHANGED <<conc, cap, wg, mainVars, panicking, crashed, acq, outsideSched>>

\* the deferred p.wg.Done(); after it an unrecovered panic ends the process
TaskDone(i) ==
    /\ ~crashed
    /\ tpc[i] = "wgdone"
    /\ wg' = wg - 1
    /\ tpc' = [tpc EXCEPT ![i] = "done"]
    /\ crashed' = panicking[i]
    /\ UNCHANGED <<conc, cap, sem, mainVars, panicking, acq, rel, outsideSched>>

WaitReturnEarly ==
    /\ ~crashed
    /\ mpc = "wait"
    /\ mpc' = "waited"
    /\ UNCHANGED <<poolVars, next, nsub, taskVars, outsideSched>>

\* Wait: wg.Wait() returns when the counter is zero
WaitReturn ==
    /\ ~crashed
    /\ mpc = "wait"
    /\ wg = 0
    /\ mpc' = "waited"
    /\ UNCHANGED <<poolVars, next, nsub, taskVars, outsideSched>>

(***************************************************************************)
(* The pool under an arbitrary task function: it returns or it panics.     *)
(***************************************************************************)
FnReturn(i) ==
    /\ ~crashed
    /\ tpc[i] = "fn"
    /\ tpc' = [tpc EXCEPT ![i] = "release"]
    /\ UNCHANGED <<poolVars, mainVars, panicking, crashed, acq, rel, outsideSched>>

FnPanic(i) ==
    /\ ~crashed
    /\ tpc[i] = "fn"
    /\ tpc' = [tpc EXCEPT ![i] = "release"]
    /\ panicking' = [panicking EXCEPT ![i] = TRUE]
    /\ UNCHANGED <<poolVars, mainVars, crashed, acq, rel, outsideSched>>

(***************************************************************************)
(* internal/diff: images and the pixel comparison                          *)
(***************************************************************************)
\* a path under __image-snapshots__: <dir>/<case>_<w>x<h>.png<suffix>; the
\* empty string is NoPath
Path(dir, i, suffix) == [dir |-> dir, case |-> i, suffix |-> suffix]
NoPath == Path("", 0, "")

\* A stored pixel is <<r, g, b, a>>, not alpha-premultiplied (PNG with alpha
\* decodes to image.NRGBA); each channel is 0 or 1 (for 0x00 and 0xff).
Opaque0 == <<0, 0, 0, 1>>
Clear0 == <<0, 0, 0, 0>>
Clear1 == <<1, 0, 0, 0>>
Colours == {Opaque0, Clear0, Clear1}

\* color.RGBA{255, 0, 255, 255}
Magenta == <<1, 0, 1, 1>>

Dims == {d \in (1..MaxPixels) \X (1..MaxPixels) : d[1] * d[2] <= MaxPixels}

\* an image: its bounds and its pixels, row by row
Image(w, h, px) == [w |-> w, h |-> h, px |-> px]
ImagesOf(d) == {Image(d[1], d[2], px) : px \in [1..(d[1] * d[2]) -> Colours]}
Images == UNION {ImagesOf(d) : d \in Dims}

\* img.At(x, y), x and y from 0
At(img, x, y) == img.px[y * img.w + x + 1]

\* Color.RGBA(): the alpha-premultiplied channels the comparison reads
RGBA(c) == <<c[1] * c[4], c[2] * c[4], c[3] * c[4], c[4]>>

\* resize.Resize(w, h, b, resize.NearestNeighbor): each target pixel takes
\* the source pixel its position falls on
Resize(w, h, b) ==
    Image(w, h, [p \in 1..(w * h) |->
        At(b, (((p - 1) % w) * b.w) \div w, (((p - 1) \div w) * b.h) \div h)])

\* the negation of "ar != br || ag != bg || ab2 != bb2 || aa != ba"
PixelsEqual(ca, cb) ==
    /\ RGBA(ca)[1] = RGBA(cb)[1]
    /\ RGBA(ca)[2] = RGBA(cb)[2]
    /\ RGBA(ca)[3] = RGBA(cb)[3]
    /\ RGBA(ca)[4] = RGBA(cb)[4]

\* the loops over y and x: diffCount after the pixels p..w*h
RECURSIVE DiffCountFrom(_, _, _)
DiffCountFrom(a, b, p) ==
    IF p > a.w * a.h THEN 0
    ELSE (IF PixelsEqual(At(a, (p - 1) % a.w, (p - 1) \div a.w),
                         At(b, (p - 1) % a.w, (p - 1) \div a.w))
             THEN 0 ELSE 1) + DiffCountFrom(a, b, p + 1)

DiffImageUnmarked(a, b) ==
    Image(a.w, a.h, [p \in 1..(a.w * a.h) |-> RGBA(a.px[p])])

\* diffImg: an image.RGBA the baseline is drawn into with draw.Src, which
\* stores each pixel alpha-premultiplied, with the mismatched pixels set to
\* magenta
DiffImage(a, b) ==
    Image(a.w, a.h, [p \in 1..(a.w * a.h) |->
        IF PixelsEqual(a.px[p], b.px[p]) THEN RGBA(a.px[p]) ELSE Magenta])

RatioBelow(ratio, threshold) ==
    ratio[1] * threshold[2] < threshold[1] * ratio[2]

\* ratio <= threshold, on fractions <<num, den>> with den > 0
RatioLeq(ratio, threshold) ==
    ratio[1] * threshold[2] <= threshold[1] * ratio[2]

\* pixelDiff: (PixelResult, diffImg, err)
PixelDiff(a, b, threshold) ==
    LET b2 == IF a.w # b.w \/ a.h # b.h THEN Resize(a.w, a.h, b) ELSE b
    IN  IF a.w # b2.w \/ a.h # b2.h
           THEN [err |-> "size mismatch after resize"]
           ELSE LET ratio == <<DiffCountFrom(a, b2, 1), a.w * a.h>>
                IN  [err |-> "nil",
                     px |-> [Pass |-> RatioLeq(ratio, threshold),
                             RatioDiff |-> ratio,
                             DiffImagePath |-> NoPath],
                     diffImg |-> DiffImage(a, b2)]

\* math.Max(0, pxThreshold)
MaxZero(t) == IF t[1] < 0 THEN <<0, 1>> ELSE t

\* the thresholds handed to CompareFiles, as fractions
DiffThresholds == {<<-1, 2>>, <<0, 1>>, <<1, 2>>, <<1, 1>>}

\* the candidates tried against baseline a: every image of its size, and
\* the images of another size that have at most two pixels
CandidatesFor(a) ==
    {b \in Images : (b.w = a.w /\ b.h = a.h) \/ b.w * b.h <= 2}

\* no image, and the result before pixelDiff has been called
NoImage == Image(0, 0, <<>>)
NoResult == [err |-> "none"]

IdleDiff ==
    /\ dA = NoImage
    /\ dB = NoImage
    /\ dThr = <<0, 1>>
    /\ dRes = NoResult

InitDiffInputs ==
    /\ dA \in Images
    /\ dB \in CandidatesFor(dA)
    /\ dThr \in DiffThresholds
    /\ dRes = NoResult

\* CompareFiles calls pixelDiff(baseImg, img, math.Max(0, pxThreshold))
DiffPixel ==
    /\ dA.w > 0
    /\ dRes.err = "none"
    /\ dRes' = PixelDiff(dA, dB, MaxZero(dThr))
    /\ UNCHANGED <<outsideDiff, dA, dB, dThr>>

IdleSched ==
    /\ conc = 1
    /\ cap = 1
    /\ sem = 0
    /\ wg = 0
    /\ mpc = "none"
    /\ next = 1
    /\ nsub = 0
    /\ tpc = [i \in Tasks |-> "idle"]
    /\ panicking = [i \in Tasks |-> FALSE]
    /\ crashed = FALSE
    /\ acq = [i \in Tasks |-> 0]
    /\ rel = [i \in Tasks |-> 0]

\* report.Report before main has built it
NoReport ==
    [written |-> FALSE, Total |-> 0, Passed |-> 0, Failed |-> 0,
     NoBaseline |-> 0, Errored |-> 0, Cases |-> <<>>]

IdleRun ==
    /\ variant = "none"
    /\ nconfigs = 0
    /\ limit = 0
    /\ cfgThreshold = 0
    /\ results = <<>>
    /\ report = NoReport
    /\ tbuf = [i \in Tasks |-> NoImage]
    /\ fs = <<>>
    /\ runs = 0

IdleTabs ==
    /\ tinst = [i \in Tasks |-> 0]
    /\ ttab = [i \in Tasks |-> 0]
    /\ tabs = <<>>

IdleEvents ==
    /\ evq = 0
    /\ uipc = "none"
    /\ dropped = 0
    /\ tev = [i \in Tasks |-> 0]

IdleHealth ==
    /\ hpc = "none"
    /\ hover = FALSE
    /\ hret = "none"

IdleSetup ==
    /\ sdecls = <<>>
    /\ spc = "none"
    /\ configs = <<>>
    /\ submitted = <<>>

IdleExit ==
    /\ srv = "none"
    /\ xpc = "none"

\* the names and the instance ids of the events delivered to the model
FeedNames == {1, 2}
FeedInstances == {0, 1}

\* no entry of Model.active under a name
NoActive == [present |-> FALSE, instance |-> 0]

\* ui.New: no entry is active, the log is empty, every count is 0
NewModel(total, maxLog) ==
    [total |-> total,
     active |-> [n \in FeedNames |-> NoActive],
     logs |-> <<>>,
     maxLog |-> maxLog,
     counts |-> [running |-> 0, passed |-> 0, failed |-> 0, nobase |-> 0,
                 errored |-> 0, completed |-> 0]]

\* Update has not been called
NoMsg == [Type |-> "none", Name |-> 0, Instance |-> 0, Status |-> "", Error |-> ""]

IdleFeed ==
    /\ fsent = [i \in Tasks |-> <<>>]
    /\ model = NewModel(0, 0)
    /\ umsg = NoMsg

\* Capture has not returned
NoCapture == [returned |-> FALSE, err |-> "nil", buf |-> "nil"]

IdleCapture ==
    /\ kvariant = "none"
    /\ knsel = 0
    /\ kready = {}
    /\ kpc = "none"
    /\ kctx = "live"
    /\ kroot = "live"
    /\ ktab = "none"
    /\ ksel = 1
    /\ kwaitOver = FALSE
    /\ kfile = FALSE
    /\ kret = NoCapture

(***************************************************************************)
(* internal/browser                                                        *)
(***************************************************************************)
\* LaunchPool: if n < 1 { n = 1 }
ClampN(n) == IF n < 1 THEN 1 ELSE n

\* PickIdx has not been called
NoPickIdx == [returned |-> FALSE, inst |-> [ID |-> 0, proc |-> 0], id |-> 0]

NoReturn == [returned |-> FALSE, isNil |-> TRUE, pool |-> <<>>, err |-> "nil"]

IdleLaunch ==
    /\ ln = 1
    /\ lpc = "none"
    /\ li = 0
    /\ lt = 1
    /\ lsub = "cancel"
    /\ procs = <<>>
    /\ instances = <<>>
    /\ lret = NoReturn
    /\ picked = 0
    /\ pickIdx = NoPickIdx
    /\ closeCalls = 0

InitLaunchPool ==
    /\ ln \in 0..MaxInstances
    /\ lpc = "loop"
    /\ li = 0
    /\ lt = 1
    /\ lsub = "cancel"
    /\ procs = <<>>
    /\ instances = <<>>
    /\ lret = NoReturn
    /\ picked = 0
    /\ pickIdx = NoPickIdx
    /\ closeCalls = 0

\* launchOne: NewExecAllocator and NewContext hand out the two cancel
\* functions of a new browser
LaunchOneStart ==
    /\ lpc = "loop"
    /\ li < ClampN(ln)
    /\ procs' = Append(procs, [ctx |-> TRUE, alloc |-> TRUE])
    /\ lpc' = "run"
    /\ UNCHANGED <<outsideLaunch, pickIdx,
                   ln, li, lt, lsub, instances, lret, picked, closeCalls>>

LaunchOneOkNoID ==
    /\ lpc = "run"
    /\ instances' = Append(instances, [ID |-> 0, proc |-> Len(procs)])
    /\ li' = li + 1
    /\ lpc' = "loop"
    /\ UNCHANGED <<outsideLaunch, pickIdx, ln, lt, lsub, procs, lret, picked, closeCalls>>

\* launchOne: chromedp.Run(ctx) succeeds; LaunchPool sets inst.ID = i and
\* appends the instance
LaunchOneOk ==
    /\ lpc = "run"
    /\ instances' = Append(instances, [ID |-> li, proc |-> Len(procs)])
    /\ li' = li + 1
    /\ lpc' = "loop"
    /\ UNCHANGED <<outsideLaunch, pickIdx, ln, lt, lsub, procs, lret, picked, closeCalls>>

\* launchOne: chromedp.Run(ctx) fails
LaunchOneFail ==
    /\ lpc = "run"
    /\ lpc' = "failcancel"
    /\ UNCHANGED <<outsideLaunch, pickIdx,
                   ln, li, lt, lsub, procs, instances, lret, picked, closeCalls>>

\* launchOne, after the failed Run: cancel()
LaunchOneCancel ==
    /\ lpc = "failcancel"
    /\ procs' = [procs EXCEPT ![Len(procs)].ctx = FALSE]
    /\ lpc' = "failalloc"
    /\ UNCHANGED <<outsideLaunch, pickIdx,
                   ln, li, lt, lsub, instances, lret, picked, closeCalls>>

\* launchOne, after the failed Run: allocCancel() and return nil, err;
\* LaunchPool goes on to close what it had launched
LaunchOneAllocCancel ==
    /\ lpc = "failalloc"
    /\ procs' = [procs EXCEPT ![Len(procs)].alloc = FALSE]
    /\ lpc' = "teardown"
    /\ lt' = 1
    /\ lsub' = "cancel"
    /\ UNCHANGED <<outsideLaunch, pickIdx, ln, li, instances, lret, picked, closeCalls>>

TeardownTargetsButLast == 1..(Len(instances) - 1)

\* for _, it := range instances
TeardownTargets == 1..Len(instances)

\* LaunchPool, on an error: it.cancel()
TeardownCancel ==
    /\ lpc = "teardown"
    /\ lt \in TeardownTargets
    /\ lsub = "cancel"
    /\ procs' = [procs EXCEPT ![instances[lt].proc].ctx = FALSE]
    /\ lsub' = "alloc"
    /\ UNCHANGED <<outsideLaunch, pickIdx,
                   ln, lpc, li, lt, instances, lret, picked, closeCalls>>

\* LaunchPool, on an error: it.AllocCancel()
TeardownAlloc ==
    /\ lpc = "teardown"
    /\ lt \in TeardownTargets
    /\ lsub = "alloc"
    /\ procs' = [procs EXCEPT ![instances[lt].proc].alloc = FALSE]
    /\ lt' = lt + 1
    /\ lsub' = "cancel"
    /\ UNCHANGED <<outsideLaunch, pickIdx, ln, lpc, li, instances, lret, picked, closeCalls>>

\* LaunchPool, on an error, after the loop: return nil, err
LaunchReturnErr ==
    /\ lpc = "teardown"
    /\ lt \notin TeardownTargets
    /\ lret' = [returned |-> TRUE, isNil |-> TRUE, pool |-> <<>>, err |-> "launch failed"]
    /\ lpc' = "returned"
    /\ UNCHANGED <<outsideLaunch, pickIdx,
                   ln, li, lt, lsub, procs, instances, picked, closeCalls>>

\* LaunchPool: return instances, nil
LaunchReturnOk ==
    /\ lpc = "loop"
    /\ li >= ClampN(ln)
    /\ lret' = [returned |-> TRUE, isNil |-> FALSE, pool |-> instances, err |-> "nil"]
    /\ lpc' = "returned"
    /\ UNCHANGED <<outsideLaunch, pickIdx,
                   ln, li, lt, lsub, procs, instances, picked, closeCalls>>

\* the pool LaunchPool handed out is in use: Pick may be called on it
PoolInUse == lpc = "returned" /\ lret.err = "nil" /\ closeCalls = 0

PickFirst(is) == {is[1]}

\* Instances.Pick: is[0] for one instance, else is[rand.Intn(len(is))]
Pick(is) ==
    IF Len(is) = 1 THEN {is[1]} ELSE {is[k] : k \in 1..Len(is)}

\* a task picks an instance of the launched pool
PickInstance ==
    /\ lpc = "returned"
    /\ lret.err = "nil"
    /\ closeCalls = 0
    /\ \E b \in Pick(lret.pool) : picked' = b.ID + 1
    /\ UNCHANGED <<outsideLaunch, pickIdx,
                   ln, lpc, li, lt, lsub, procs, instances, lret, closeCalls>>

\* Instances.PickIdx: (is[0], is[0].ID) for one instance, else
\* (is[rand.Intn(len(is))], is[0].ID)
PickIdx(is) ==
    IF Len(is) = 1 THEN {<<is[1], is[1].ID>>}
                   ELSE {<<is[k], is[1].ID>> : k \in 1..Len(is)}

\* PickIdx is called on the launched pool
PickIdxInstance ==
    /\ PoolInUse
    /\ \E r \in PickIdx(lret.pool) :
          pickIdx' = [returned |-> TRUE, inst |-> r[1], id |-> r[2]]
    /\ UNCHANGED <<outsideLaunch, ln, lpc, li, lt, lsub, procs, instances, lret,
                   picked, closeCalls>>

\* CloseAll is called on what LaunchPool returned (nil after an error)
CloseAllStart ==
    /\ lpc = "returned"
    /\ closeCalls < MaxCloseCalls
    /\ closeCalls' = closeCalls + 1
    /\ lpc' = "closeall"
    /\ lt' = 1
    /\ lsub' = "cancel"
    /\ UNCHANGED <<outsideLaunch, pickIdx, ln, li, procs, instances, lret, picked>>

\* CloseAll: it.cancel()
CloseCancel ==
    /\ lpc = "closeall"
    /\ lt <= Len(lret.pool)
    /\ lsub = "cancel"
    /\ procs' = [procs EXCEPT ![lret.pool[lt].proc].ctx = FALSE]
    /\ lsub' = "alloc"
    /\ UNCHANGED <<outsideLaunch, pickIdx,
                   ln, lpc, li, lt, instances, lret, picked, closeCalls>>

CloseAllocSkipped ==
    /\ lpc = "closeall"
    /\ lt <= Len(lret.pool)
    /\ lsub = "alloc"
    /\ lt' = lt + 1
    /\ lsub' = "cancel"
    /\ UNCHANGED <<outsideLaunch, pickIdx,
                   ln, lpc, li, procs, instances, lret, picked, closeCalls>>

\* CloseAll: it.AllocCancel()
CloseAlloc ==
    /\ lpc = "closeall"
    /\ lt <= Len(lret.pool)
    /\ lsub = "alloc"
    /\ procs' = [procs EXCEPT ![lret.pool[lt].proc].alloc = FALSE]
    /\ lt' = lt + 1
    /\ lsub' = "cancel"
    /\ UNCHANGED <<outsideLaunch, pickIdx, ln, lpc, li, instances, lret, picked, closeCalls>>

\* CloseAll returns
CloseAllReturn ==
    /\ lpc = "closeall"
    /\ lt > Len(lret.pool)
    /\ lpc' = "returned"
    /\ UNCHANGED <<outsideLaunch, pickIdx,
                   ln, li, lt, lsub, procs, instances, lret, picked, closeCalls>>

InitLaunch == IdleSched /\ IdleDiff /\ IdleRun /\ IdleCapture /\ InitLaunchPool /\ IdleTabs /\ IdleEvents /\ IdleHealth /\ IdleFeed /\ IdleSetup /\ IdleExit

NextLaunch ==
    \/ LaunchOneStart
    \/ LaunchOneOk
    \/ LaunchOneFail
    \/ LaunchOneCancel
    \/ LaunchOneAllocCancel
    \/ TeardownCancel
    \/ TeardownAlloc
    \/ LaunchReturnErr
    \/ LaunchReturnOk
    \/ PickInstance
    \/ PickIdxInstance
    \/ CloseAllStart
    \/ CloseCancel
    \/ CloseAlloc
    \/ CloseAllReturn

SpecLaunch == InitLaunch /\ [][NextLaunch]_vars

\* a browser is open while one of its two cancel functions has not run
OpenProcs == {k \in 1..Len(procs) : procs[k].ctx \/ procs[k].alloc}

\* C10: when LaunchPool returns an error, whatever the position of the
\* failed launch, it returns a nil pool and no instance is open: every
\* instance launched earlier in the call has been torn down.
C10_AllOrNothing ==
    (lret.returned /\ lret.err # "nil") =>
        /\ lret.isNil
        /\ lret.pool = <<>>
        /\ OpenProcs = {}

\* C10 witness: the last of the requested launches failed after all the
\* others had succeeded, and LaunchPool has returned the error.
C10_Witness ==
    /\ lret.returned /\ lret.err # "nil"
    /\ ln = MaxInstances
    /\ Len(procs) = ln
    /\ Len(instances) = ln - 1

\* C21: Pick on a pool of n >= 1 instances returns a member of that pool,
\* the sole instance when n = 1; when n > 1 every member can be returned
\* by the next call, whatever earlier calls returned; and a call leaves
\* the pool and its instances as they were.
C21_PickReturnsMember ==
    /\ [](picked # 0 =>
            \E k \in 1..Len(lret.pool) : picked = lret.pool[k].ID + 1)
    /\ []((picked # 0 /\ Len(lret.pool) = 1) => picked = lret.pool[1].ID + 1)
    /\ [](PoolInUse =>
            \A k \in 1..Len(lret.pool) :
                ENABLED (PickInstance /\ picked' = lret.pool[k].ID + 1))
    /\ [][picked' # picked => UNCHANGED <<lret, instances, procs>>]_vars

\* C21 witness: on a pool of more than one instance a call has returned the
\* last member, and the pool still holds every instance, all of them open.
C21_Witness ==
    /\ PoolInUse
    /\ Len(lret.pool) > 1
    /\ picked = lret.pool[Len(lret.pool)].ID + 1
    /\ \A k \in 1..Len(lret.pool) :
           procs[lret.pool[k].proc].ctx /\ procs[lret.pool[k].proc].alloc

\* the instances of pool is whose browser context, whose allocator is
\* still open
StillOpen(is) ==
    {k \in 1..Len(is) : procs[is[k].proc].ctx \/ procs[is[k].proc].alloc}

\* C22: when a CloseAll call has returned, both teardown functions of every
\* instance of the pool have run; a call on a nil or empty pool, and a
\* second call on the same pool, always can go on to its return, and no
\* step of such a call changes a browser or the pool.
C22_CloseAllReleases ==
    /\ []((lpc = "returned" /\ closeCalls >= 1) => StillOpen(lret.pool) = {})
    /\ [](lpc = "closeall" => ENABLED (CloseCancel \/ CloseAlloc \/ CloseAllReturn))
    /\ [][(lpc = "closeall" /\ (lret.pool = <<>> \/ closeCalls >= 2)) =>
            UNCHANGED <<procs, lret, instances>>]_vars

\* C22 witness: a second CloseAll on a pool of several instances has
\* returned, and so has the first.
C22_Witness ==
    /\ lpc = "returned"
    /\ closeCalls = 2
    /\ Len(lret.pool) > 1
    /\ StillOpen(lret.pool) = {}

\* C31: the pool a successful LaunchPool(n) returned holds n instances, one
\* when n < 1; the instance at position i (from 0) has ID i, so the IDs
\* are distinct; and nothing that happens afterwards (Pick, CloseAll)
\* changes the pool or an ID.
C31_PoolSizeAndIds ==
    /\ []((lret.returned /\ lret.err = "nil") =>
            /\ Len(lret.pool) = (IF ln > 1 THEN ln ELSE 1)
            /\ \A k \in 1..Len(lret.pool) : lret.pool[k].ID = k - 1
            /\ \A j, k \in 1..Len(lret.pool) :
                   j # k => lret.pool[j].ID # lret.pool[k].ID)
    /\ [][lret.returned => lret' = lret]_vars

\* C31 witness: LaunchPool returned the largest pool asked for, instances
\* have been picked from it and it has been closed.
C31_Witness ==
    /\ lret.returned
    /\ lret.err = "nil"
    /\ Len(lret.pool) = MaxInstances
    /\ picked = MaxInstances
    /\ closeCalls >= 1
    /\ lpc = "returned"

\* C38 as stated: the id a PickIdx call returned is the ID of the instance
\* the same call returned.
C38_AsStated == pickIdx.returned => pickIdx.id = pickIdx.inst.ID

InitDiff == IdleSched /\ IdleLaunch /\ IdleRun /\ IdleCapture /\ InitDiffInputs /\ IdleTabs /\ IdleEvents /\ IdleHealth /\ IdleFeed /\ IdleSetup /\ IdleExit

NextDiff == DiffPixel

SpecDiff == InitDiff /\ [][NextDiff]_vars

\* pixelDiff has returned for two images of the same size and a threshold
\* that is not negative
SameSizeCompared ==
    /\ dRes.err # "none"
    /\ dA.w = dB.w /\ dA.h = dB.h
    /\ dThr[1] >= 0

\* the number of positions where the stored pixels differ
StoredDiffs == Cardinality({p \in 1..(dA.w * dA.h) : dA.px[p] # dB.px[p]})

\* the number of positions where the alpha-premultiplied pixels differ
VisibleDiffs ==
    Cardinality({p \in 1..(dA.w * dA.h) : RGBA(dA.px[p]) # RGBA(dB.px[p])})

\* C8 as stated: for equal-sized images whose pixels differ at exactly k
\* positions and a threshold t >= 0, ratioDiff = k/(w*h) and pass holds
\* exactly when ratioDiff <= t.
C8_AsStated ==
    SameSizeCompared =>
        /\ dRes.err = "nil"
        /\ dRes.px.RatioDiff = <<StoredDiffs, dA.w * dA.h>>
        /\ dRes.px.Pass <=> (StoredDiffs * dThr[2] <= dThr[1] * dA.w * dA.h)

\* C8 amended: for equal-sized images that differ at exactly k positions in
\* the alpha-premultiplied channels the comparison reads (two fully
\* transparent pixels are equal whatever their colour channels) and a
\* threshold t >= 0, ratioDiff = k/(w*h) and pass holds exactly when
\* ratioDiff <= t; ratioDiff = t passes.
C8_RatioAndPass ==
    SameSizeCompared =>
        /\ dRes.err = "nil"
        /\ dRes.px.RatioDiff = <<VisibleDiffs, dA.w * dA.h>>
        /\ dRes.px.Pass <=> (VisibleDiffs * dThr[2] <= dThr[1] * dA.w * dA.h)

\* C8 witness: one of two pixels differs and the threshold is 1/2: the
\* comparison passes on the boundary.
C8_Witness ==
    /\ SameSizeCompared
    /\ dA.w * dA.h = 2
    /\ VisibleDiffs = 1
    /\ dThr = <<1, 2>>
    /\ dRes.px.Pass

\* a pixel comparison of two images of one size has failed
SameSizeFailed ==
    /\ dRes.err = "nil"
    /\ dA.w = dB.w /\ dA.h = dB.h
    /\ ~dRes.px.Pass

\* the candidate as pixelDiff compares it: scaled to the baseline's size
\* when the sizes differ
Compared == IF dA.w # dB.w \/ dA.h # dB.h THEN Resize(dA.w, dA.h, dB) ELSE dB

InitPool ==
    /\ IdleHealth /\ IdleFeed /\ IdleSetup /\ IdleExit
    /\ IdleEvents
    /\ IdleTabs
    /\ IdleDiff
    /\ IdleLaunch
    /\ IdleRun
    /\ IdleCapture
    /\ conc \in Concurrencies
    /\ cap = New(conc)
    /\ sem = 0
    /\ wg = 0
    /\ mpc = "loop"
    /\ next = 1
    /\ nsub \in 0..MaxCases
    /\ tpc = [i \in Tasks |-> "idle"]
    /\ panicking = [i \in Tasks |-> FALSE]
    /\ crashed = FALSE
    /\ acq = [i \in Tasks |-> 0]
    /\ rel = [i \in Tasks |-> 0]

NextPool ==
    \/ GoAdd
    \/ GoSend
    \/ LoopEnd
    \/ WaitReturn
    \/ \E i \in Tasks : FnReturn(i)
    \/ \E i \in Tasks : FnPanic(i)
    \/ \E i \in Tasks : TaskRelease(i)
    \/ \E i \in Tasks : TaskDone(i)

SpecPool == InitPool /\ [][NextPool]_vars

\* the tasks that hold a permit: acquired in Go, not yet released
Holding(i) == tpc[i] \in {"fn", "release"}
Holders == {i \in Tasks : Holding(i)}
Ended(i) == tpc[i] \in {"wgdone", "done"}

\* C15: Go returns (the send on the semaphore goes through) only from a
\* state in which fewer than c tasks hold a permit, so while c tasks are in
\* flight it does not return; with fewer than c in flight the send can go
\* through at once; and when Go returns the task it submitted has only just
\* started, it has not finished.
C15_GoBlocksOnlyWhenFull ==
    /\ [][(mpc = "send" /\ mpc' # "send") =>
             /\ Cardinality(Holders) < cap
             /\ tpc'[next] = "fn"
             /\ wg' = wg]_vars
    /\ []((mpc = "send" /\ ~crashed /\ Cardinality(Holders) < cap) => ENABLED GoSend)
    /\ []((mpc = "send" /\ Cardinality(Holders) = cap) => ~ENABLED GoSend)

\* C15 witness: two permits, both held by running tasks, and a third call
\* of Go waiting in the send.
C15_Witness ==
    /\ cap = 2
    /\ mpc = "send"
    /\ next = 3
    /\ tpc[1] = "fn" /\ tpc[2] = "fn"

\* C30: a pool made with a limit c < 1 has the semaphore of a pool made with
\* c = 1, the only thing New derives from c: at most one task holds a permit,
\* a Go call that finds no task holding a permit gets one at once, and a Go
\* call that waits does so only while a task holds the permit, a task that
\* can still release it.
C30_ClampedToOne ==
    (conc < 1) =>
        /\ cap = New(1)
        /\ Cardinality(Holders) <= 1
        /\ (mpc = "send" /\ ~crashed /\ Holders = {}) => ENABLED GoSend
        /\ (mpc = "send" /\ ~crashed /\ ~ENABLED GoSend) =>
               \E i \in Holders : ENABLED (FnReturn(i) \/ TaskRelease(i))

\* C30 witness: on a pool made with c = 0 the first Go call has got its
\* permit and its task is running.
C30_Witness ==
    /\ conc < 1
    /\ acq[1] = 1
    /\ tpc[1] = "fn"
    /\ sem = 1

\* C1: at no instant do more tasks hold a permit than the configured
\* concurrency c (than 1 when c < 1).
C1_PermitBound ==
    Cardinality(Holders) <= (IF conc < 1 THEN 1 ELSE conc)

\* C1 witness: two permits are out under c = 2 while a third Go call is
\* blocked on the full channel.
C1_Witness ==
    /\ conc = 2
    /\ Cardinality(Holders) = 2
    /\ mpc = "send"

\* C2: every permit acquired by Go is released exactly once when the task
\* function has ended, by a return or by a panic, and once all submitted
\* tasks have ended the number of free permits equals the concurrency.
C2_ReleasedOnce ==
    /\ \A i \in Tasks : rel[i] <= acq[i] /\ acq[i] <= 1
    /\ \A i \in Tasks : Ended(i) => (acq[i] = 1 /\ rel[i] = 1)
    /\ (\A i \in 1..nsub : Ended(i)) => cap - sem = New(conc)

\* C2 witness: a task whose function panicked and one whose function
\* returned have both given their permit back, and none is held.
C2_Witness ==
    \E i, j \in Tasks :
        /\ panicking[i] /\ Ended(i) /\ rel[i] = 1
        /\ ~panicking[j] /\ Ended(j) /\ rel[j] = 1
        /\ sem = 0

(***************************************************************************)
(* cmd/qsnap main: the run over the case list                              *)
(***************************************************************************)
BaselinePath(i) == Path("__base_images__", i, "")
\* diffPath in the bytes variant, pngPath in the file variant
DiffPath(i) == Path("__diff__", i, "")
\* outPath + ".diff.png" of the file variant's CompareFiles
DiffOfOutPath(i) == Path("__diff__", i, ".diff.png")
Paths == {BaselinePath(i) : i \in Tasks} \cup {DiffPath(i) : i \in Tasks}
             \cup {DiffOfOutPath(i) : i \in Tasks}

\* what a path holds
Absent == [kind |-> "absent", img |-> NoImage]
Corrupt == [kind |-> "corrupt", img |-> NoImage]
Png(img) == [kind |-> "png", img |-> img]

\* the accepted screenshot of every case, and the screenshots a capture takes
BaseImage == Image(2, 1, <<Opaque0, Opaque0>>)
OtherImage == Image(2, 1, <<Opaque0, Clear0>>)
RunImages == {BaseImage, OtherImage}
\* the baseline directory at the start: every baseline there (an opaque
\* image, or one with a transparent pixel), none there, or the first missing
\* and the second not a PNG
BaselineLayouts ==
    {[i \in Tasks |-> Png(BaseImage)],
     [i \in Tasks |-> Png(OtherImage)],
     [i \in Tasks |-> Absent],
     [i \in Tasks |-> IF i = 1 THEN Absent ELSE IF i = 2 THEN Corrupt
                                             ELSE Png(BaseImage)]}

\* cfg.Threshold values tried (NewOsnapBaseConfig admits 0..100)
RunThresholds == {0, 1}

\* Hamming distances the perceptual hashes of two different images may have
PHashDistances == {0, 11}
\* the phThreshold main passes to CompareFiles
PHashAllowed == 10

\* the zero value of report.CaseResult, and of its two metric fields
NoPixel == [present |-> FALSE, Pass |-> FALSE, RatioDiff |-> <<0, 1>>,
            DiffImagePath |-> NoPath]
NoPercep == [present |-> FALSE, Pass |-> FALSE, HammingDistance |-> 0]
ZeroResult ==
    [Name |-> 0, Status |-> "", Error |-> "", OutPath |-> NoPath,
     Baseline |-> NoPath, PixelDiff |-> NoPixel, PercepDiff |-> NoPercep]

ErrorResultAsFail(i, err) ==
    [Name |-> i, Status |-> "fail", Error |-> err, OutPath |-> DiffPath(i),
     Baseline |-> BaselinePath(i), PixelDiff |-> NoPixel, PercepDiff |-> NoPercep]

\* the CaseResult main stores when Capture or CompareFiles returned an error
ErrorResult(i, err) ==
    [Name |-> i, Status |-> "error", Error |-> err, OutPath |-> DiffPath(i),
     Baseline |-> BaselinePath(i), PixelDiff |-> NoPixel, PercepDiff |-> NoPercep]

\* os.IsNotExist(err)
IsNotExist(err) == err = "ENOENT"

\* main: status := "pass"; if os.IsNotExist(err) ... else if !df.Pass ...
StatusOf(err, df) ==
    IF IsNotExist(err) THEN "no-baseline"
    ELSE IF ~df.Pass THEN "fail"
    ELSE "pass"

DoneResultPercep(i, df, ph) ==
    [Name |-> i, Status |-> IF ph.Pass THEN StatusOf("nil", df) ELSE "fail",
     Error |-> "", OutPath |-> DiffPath(i), Baseline |-> BaselinePath(i),
     PixelDiff |-> [present |-> TRUE, Pass |-> df.Pass, RatioDiff |-> df.RatioDiff,
                    DiffImagePath |-> df.DiffImagePath],
     PercepDiff |-> [present |-> TRUE, Pass |-> ph.Pass,
                     HammingDistance |-> ph.HammingDistance]]

DoneResultShortCircuit(i, df, ph) ==
    [Name |-> i, Status |-> StatusOf("nil", df), Error |-> "",
     OutPath |-> DiffPath(i), Baseline |-> BaselinePath(i),
     PixelDiff |-> [present |-> TRUE, Pass |-> df.Pass, RatioDiff |-> df.RatioDiff,
                    DiffImagePath |-> df.DiffImagePath],
     PercepDiff |-> IF df.Pass
                       THEN [present |-> TRUE, Pass |-> ph.Pass,
                             HammingDistance |-> ph.HammingDistance]
                       ELSE NoPercep]

\* the CaseResult main stores after a comparison; err is nil at that point
DoneResult(i, df, ph) ==
    [Name |-> i, Status |-> StatusOf("nil", df), Error |-> "",
     OutPath |-> DiffPath(i), Baseline |-> BaselinePath(i),
     PixelDiff |-> [present |-> TRUE, Pass |-> df.Pass, RatioDiff |-> df.RatioDiff,
                    DiffImagePath |-> df.DiffImagePath],
     PercepDiff |-> [present |-> TRUE, Pass |-> ph.Pass,
                     HammingDistance |-> ph.HammingDistance]]

\* openPNG: os.Open, then png.Decode
OpenPNG(content) ==
    IF content.kind = "absent" THEN [err |-> "ENOENT", img |-> NoImage]
    ELSE IF content.kind = "corrupt" THEN [err |-> "png: invalid format", img |-> NoImage]
    ELSE [err |-> "nil", img |-> content.img]

\* pHashDistance: hd is the distance of the two hashes (0 for equal images)
PHash(hd, allowed) == [Pass |-> hd <= allowed, HammingDistance |-> hd]

\* pHashDistance: (PHashResult, err); goimagehash.PerceptionHash returns an
\* error for a nil image and for nothing else, Distance for hashes of two
\* kinds, which these never are
PHashDistance(a, b, hd, allowed) ==
    IF a = NoImage \/ b = NoImage
       THEN [err |-> "Image object can not be nil"]
       ELSE [err |-> "nil", ph |-> PHash(hd, allowed)]

\* CompareFiles up to the saving of the diff image: base and cand are what
\* openPNG / png.Decode see, hd the distance of the hashes, artifact the path
\* the diff image goes to
CompareFiles(base, cand, artifact, pxThreshold, phThreshold, hd) ==
    LET b == OpenPNG(base)
        c == OpenPNG(cand)
    IN  IF b.err # "nil" THEN [err |-> b.err]
        ELSE IF c.err # "nil" THEN [err |-> c.err]
        ELSE LET pd == PixelDiff(b.img, c.img, MaxZero(pxThreshold))
             IN  IF pd.err # "nil" THEN [err |-> pd.err]
                 ELSE LET pr == PHashDistance(b.img, c.img, hd, phThreshold)
                      IN  IF pr.err # "nil" THEN [err |-> pr.err]
                          ELSE [err |-> "nil",
                                px |-> [pd.px EXCEPT !.DiffImagePath =
                                           IF ~pd.px.Pass THEN artifact ELSE NoPath],
                                ph |-> pr.ph,
                                save |-> ~pd.px.Pass,
                                diffImg |-> pd.diffImg]

\* configsToProcess: configs[:*limit] when 0 < *limit < len(configs)
ToProcess(n, lim) == IF lim > 0 /\ lim < n THEN lim ELSE n

\* len(results): make([]report.CaseResult, len(configs))
ResultsLen(n, lim) == n

InitRunInputs ==
    /\ variant \in {"bytes", "file"}
    /\ nconfigs \in 0..MaxRunCases
    /\ limit \in IF variant = "bytes" THEN 0..nconfigs ELSE {0}
    /\ cfgThreshold \in RunThresholds
    /\ results = [i \in 1..ResultsLen(nconfigs, limit) |-> ZeroResult]
    /\ report = NoReport
    /\ tbuf = [i \in Tasks |-> NoImage]
    /\ \E layout \in BaselineLayouts :
          fs = [q \in Paths |-> IF q.dir = "__base_images__" THEN layout[q.case]
                                                             ELSE Absent]
    /\ runs = 1

InitRunSched ==
    /\ conc \in RunConcurrencies
    /\ cap = New(conc)
    /\ sem = 0
    /\ wg = 0
    /\ mpc = "loop"
    /\ next = 1
    /\ nsub = ToProcess(nconfigs, limit)
    /\ tpc = [i \in Tasks |-> "idle"]
    /\ panicking = [i \in Tasks |-> FALSE]
    /\ crashed = FALSE
    /\ acq = [i \in Tasks |-> 0]
    /\ rel = [i \in Tasks |-> 0]

StoreAtEnd(rs, i, r) == Append(rs, r)

\* results[i] = report.CaseResult{...}: i is the closure's own copy of the
\* loop index
StoreAt(rs, i, r) == [rs EXCEPT ![i] = r]

ReturnCancelsAll(i, t) ==
    [j \in Tasks |-> IF j = i \/ t[j] \in {"fn", "compare"} THEN "release" ELSE t[j]]

\* the return of a task closure: the goroutine of task i goes on to its
\* deferred calls; no other goroutine is told anything
Return(i, t) == [t EXCEPT ![i] = "release"]

\* the task closure up to the first return: snapshot.Capture fails, or it
\* returns the screenshot (the file variant's Capture writes it to pngPath
\* first, and that may fail)
TaskCaptureErr(i) ==
    /\ tpc[i] = "fn"
    /\ variant # "none"
    /\ results' = StoreAt(results, i, ErrorResult(i, "capture"))
    /\ tpc' = Return(i, tpc)
    /\ UNCHANGED <<poolVars, mainVars, panicking, crashed, acq, rel, outsideRun,
                   variant, nconfigs, limit, cfgThreshold, report, tbuf, fs, runs>>

TaskCaptureOk(i) ==
    /\ tpc[i] = "fn"
    /\ variant # "none"
    /\ \E img \in RunImages :
          /\ tbuf' = [tbuf EXCEPT ![i] = img]
          /\ fs' = IF variant = "file"
                      THEN [fs EXCEPT ![DiffPath(i)] = Png(img)]
                      ELSE fs
    /\ tpc' = [tpc EXCEPT ![i] = "compare"]
    /\ UNCHANGED <<poolVars, mainVars, panicking, crashed, acq, rel, outsideRun,
                   variant, nconfigs, limit, cfgThreshold, results, report, runs>>

\* the artifact path CompareFiles writes the diff image to
ArtifactPath(i) == IF variant = "file" THEN DiffOfOutPath(i) ELSE DiffPath(i)

\* what CompareFiles decodes as the candidate: buf, or the file at outPath
Candidate(i) == IF variant = "file" THEN fs[DiffPath(i)] ELSE Png(tbuf[i])

\* the task closure from CompareFiles on: the comparison, the diff image
\* (savePNG's error is dropped), the CaseResult at index i
TaskCompare(i) ==
    /\ tpc[i] = "compare"
    /\ \E hd \in (IF OpenPNG(fs[BaselinePath(i)]).img = OpenPNG(Candidate(i)).img
                     THEN {0} ELSE PHashDistances), saved \in BOOLEAN :
          LET r == CompareFiles(fs[BaselinePath(i)], Candidate(i), ArtifactPath(i),
                                <<cfgThreshold, 1>>, PHashAllowed, hd)
          IN  IF r.err # "nil"
                 THEN /\ results' = StoreAt(results, i, ErrorResult(i, r.err))
                      /\ saved
                      /\ fs' = fs
                 ELSE /\ results' = StoreAt(results, i, DoneResult(i, r.px, r.ph))
                      /\ IF r.save
                            THEN fs' = IF saved
                                          THEN [fs EXCEPT ![ArtifactPath(i)] = Png(r.diffImg)]
                                          ELSE fs
                            ELSE saved /\ fs' = fs
    /\ tbuf' = [tbuf EXCEPT ![i] = NoImage]
    /\ tpc' = Return(i, tpc)
    /\ UNCHANGED <<poolVars, mainVars, panicking, crashed, acq, rel, outsideRun,
                   variant, nconfigs, limit, cfgThreshold, report, runs>>

\* report.CountStatus
RECURSIVE CountStatus(_, _)
CountStatus(cases, status) ==
    IF cases = <<>> THEN 0
    ELSE (IF Head(cases).Status = status THEN 1 ELSE 0)
             + CountStatus(Tail(cases), status)

\* main after wp.Wait(): the report is built from results and written
MainReport ==
    /\ mpc = "waited"
    /\ variant # "none"
    /\ report' = [written |-> TRUE,
                  Total |-> Len(results),
                  Passed |-> CountStatus(results, "pass"),
                  Failed |-> CountStatus(results, "fail"),
                  NoBaseline |-> CountStatus(results, "no-baseline"),
                  Errored |-> CountStatus(results, "error"),
                  Cases |-> results]
    /\ mpc' = "exit"
    /\ UNCHANGED <<poolVars, next, nsub, taskVars, outsideRun,
                   variant, nconfigs, limit, cfgThreshold, results, tbuf, fs, runs>>

InitRun == IdleDiff /\ IdleLaunch /\ IdleCapture /\ InitRunInputs /\ InitRunSched /\ IdleTabs /\ IdleEvents /\ IdleHealth /\ IdleFeed /\ IdleSetup /\ IdleExit

NextRun ==
    \/ GoAdd
    \/ GoSend
    \/ LoopEnd
    \/ WaitReturn
    \/ MainReport
    \/ \E i \in Tasks : TaskCaptureErr(i)
    \/ \E i \in Tasks : TaskCaptureOk(i)
    \/ \E i \in Tasks : TaskCompare(i)
    \/ \E i \in Tasks : TaskRelease(i)
    \/ \E i \in Tasks : TaskDone(i)

SpecRun == InitRun /\ [][NextRun]_vars

\* the program is started again over the same directory and configuration
Rerun ==
    /\ mpc = "exit"
    /\ runs < MaxRuns
    /\ runs' = runs + 1
    /\ results' = [i \in 1..ResultsLen(nconfigs, limit) |-> ZeroResult]
    /\ report' = NoReport
    /\ sem' = 0
    /\ wg' = 0
    /\ mpc' = "loop"
    /\ next' = 1
    /\ tpc' = [i \in Tasks |-> "idle"]
    /\ acq' = [i \in Tasks |-> 0]
    /\ rel' = [i \in Tasks |-> 0]
    /\ UNCHANGED <<conc, cap, nsub, panicking, crashed, outsideRun,
                   variant, nconfigs, limit, cfgThreshold, tbuf, fs>>

NextRuns == NextRun \/ Rerun

SpecRuns == InitRun /\ [][NextRuns]_vars

Statuses == {"pass", "fail", "no-baseline", "error"}

\* task i is past the closure body: its result has been stored
Stored(i) == tpc[i] \in {"release", "wgdone", "done"}

\* C3 as stated: the report's case list has exactly as many entries as
\* cases were submitted to the scheduler, and entry i holds the result of
\* the i-th submitted case.
C3_AsStated ==
    report.written =>
        /\ Len(report.Cases) = nsub
        /\ \A i \in 1..nsub : report.Cases[i].Name = i

\* C4 as stated: in every report total = passed + failed + noBaseline +
\* errored.
C4_AsStated ==
    report.written =>
        report.Total = report.Passed + report.Failed + report.NoBaseline
                           + report.Errored

\* C5 as stated: once Wait has returned every entry of the result list
\* carries one of the four terminal statuses.
C5_AsStated ==
    mpc \in {"waited", "exit"} =>
        \A i \in 1..Len(results) : results[i].Status \in Statuses

\* C6 as stated: a case compared while its baseline file does not exist
\* gets status no-baseline, never error, and no diff artifact.
C6_AsStated ==
    \A i \in 1..nsub :
        (/\ Stored(i)
         /\ results[i].Error # "capture"
         /\ fs[BaselinePath(i)].kind = "absent")
        => /\ results[i].Status = "no-baseline"
           /\ fs[ArtifactPath(i)].kind = "absent"

\* C7 as stated: after a case's comparison has completed, a diff artifact
\* exists at its diff path and the result names it if and only if the
\* pixel comparison failed, in every run over the same directory.
C7_AsStated ==
    \A i \in 1..nsub :
        (Stored(i) /\ results[i].PixelDiff.present) =>
            /\ fs[ArtifactPath(i)].kind # "absent" <=> ~results[i].PixelDiff.Pass
            /\ results[i].PixelDiff.DiffImagePath # NoPath
                   <=> ~results[i].PixelDiff.Pass

C14_WaitThenTotals ==
    /\ mpc \in {"waited", "exit"} => \A i \in 1..nsub : tpc[i] = "done"
    /\ report.written => mpc = "exit"

\* C14 witness: two tasks were submitted, Wait has returned and the report
\* has been built from both results.
C14_Witness ==
    /\ report.written
    /\ nsub = 2
    /\ \A i \in 1..2 : results[i].Status \in Statuses

\* C16: for a comparison that completed (no error, baseline present) the
\* status is pass exactly when the pixel comparison passed and fail
\* otherwise, whatever the perceptual pass flag says.
C16_StatusFromPixels ==
    \A i \in 1..nsub :
        (Stored(i) /\ results[i].PixelDiff.present) =>
            /\ results[i].PercepDiff.present
            /\ results[i].Status = "pass" <=> results[i].PixelDiff.Pass
            /\ results[i].Status = "fail" <=> ~results[i].PixelDiff.Pass

\* C16 witness: one case passed although its perceptual comparison failed,
\* another passed with a perceptual comparison that passed.
C16_Witness ==
    /\ nsub = 2
    /\ \E i, j \in 1..2 :
          /\ Stored(i) /\ Stored(j)
          /\ results[i].Status = "pass" /\ results[i].PercepDiff.present
          /\ ~results[i].PercepDiff.Pass
          /\ results[j].Status = "pass" /\ results[j].PercepDiff.Pass

\* C20: the comparison of a screenshot with a baseline that is an identical
\* image yields ratioDiff = 0, Hamming distance 0 and status pass at every
\* threshold, names no diff image and leaves the diff path as it was.
C20_IdenticalPasses ==
    [][\A i \in 1..nsub :
          (/\ tpc[i] = "compare" /\ tpc'[i] # "compare"
           /\ fs[BaselinePath(i)].kind = "png"
           /\ Candidate(i) = fs[BaselinePath(i)]) =>
              /\ results'[i].Status = "pass"
              /\ results'[i].PixelDiff.present /\ results'[i].PixelDiff.Pass
              /\ results'[i].PixelDiff.RatioDiff[1] = 0
              /\ results'[i].PixelDiff.DiffImagePath = NoPath
              /\ results'[i].PercepDiff.HammingDistance = 0
              /\ results'[i].PercepDiff.Pass
              /\ fs'[ArtifactPath(i)] = fs[ArtifactPath(i)]]_vars

\* C20 witness: at threshold 0 a screenshot with a transparent pixel was
\* compared with its identical baseline and passed, and no diff image exists.
C20_Witness ==
    /\ cfgThreshold = 0
    /\ nsub >= 1
    /\ Stored(1)
    /\ fs[BaselinePath(1)] = Png(OtherImage)
    /\ results[1].Status = "pass"
    /\ results[1].PixelDiff.RatioDiff[1] = 0
    /\ fs[ArtifactPath(1)].kind = "absent"

\* C23: whatever the interleaving, the result list keeps the length it was
\* made with, and a step that changes it is the store of one running task
\* at that task's own index, an index nothing was stored at before; every
\* other entry is left as it was.
C23_OwnIndexOnly ==
    /\ [](Len(results) = ResultsLen(nconfigs, limit))
    /\ [][results' # results =>
            /\ Len(results') = Len(results)
            /\ \E i \in 1..Len(results) :
                   /\ tpc[i] \in {"fn", "compare"}
                   /\ Stored(i)'
                   /\ results[i] = ZeroResult
                   /\ results'[i].Name = i
                   /\ \A j \in 1..Len(results) :
                          j # i => /\ results'[j] = results[j]
                                   /\ tpc'[j] = tpc[j]]_vars

\* C23 witness: with two tasks in flight at once, the first has stored its
\* result while the second is still comparing and has stored nothing.
C23_Witness ==
    /\ conc = 2
    /\ Stored(1)
    /\ results[1].Status \in Statuses
    /\ tpc[2] = "compare"
    /\ results[2] = ZeroResult

\* C25: every entry of the result list carries the pixel result and the
\* perceptual result together or neither of them; an entry with status
\* error carries neither, and the entry of a task whose comparison
\* completed carries both, whatever either of them says about passing.
C25_BothOrNeither ==
    \A i \in 1..Len(results) :
        /\ results[i].PixelDiff.present <=> results[i].PercepDiff.present
        /\ results[i].Status = "error" => ~results[i].PixelDiff.present
        /\ (Stored(i) /\ results[i].Status # "error") =>
               /\ results[i].PixelDiff.present
               /\ results[i].PercepDiff.present

\* C25 witness: one case failed the pixel comparison and passed the
\* perceptual one and carries both results, another ended with an error
\* and carries neither.
C25_Witness ==
    \E i, j \in 1..Len(results) :
        /\ results[i].PixelDiff.present
        /\ ~results[i].PixelDiff.Pass
        /\ results[i].PercepDiff.present
        /\ results[i].PercepDiff.Pass
        /\ results[j].Status = "error"
        /\ ~results[j].PixelDiff.present
        /\ ~results[j].PercepDiff.present

\* C26: in every entry of the result list, and of the report once it is
\* written, the error text is non-empty only when the status is error: an
\* entry with status pass, fail or no-baseline has the empty error text.
C26_ErrorTextOnlyOnError ==
    /\ \A i \in 1..Len(results) :
           /\ results[i].Error # "" => results[i].Status = "error"
           /\ results[i].Status \in {"pass", "fail", "no-baseline"} =>
                  results[i].Error = ""
    /\ \A i \in 1..Len(report.Cases) :
           report.Cases[i].Error # "" => report.Cases[i].Status = "error"

\* C26 witness: the report is written with one case that ended in an error
\* and has an error text, and one that failed the comparison and has none.
C26_Witness ==
    /\ report.written
    /\ \E i, j \in 1..Len(report.Cases) :
           /\ report.Cases[i].Status = "error"
           /\ report.Cases[i].Error # ""
           /\ report.Cases[j].Status = "fail"
           /\ report.Cases[j].Error = ""

(***************************************************************************)
(* internal/snapshot: one call of Capture                                  *)
(***************************************************************************)
InitCaptureCall ==
    /\ kvariant \in {"bytes", "file"}
    /\ knsel \in 1..MaxSelectors
    /\ kready \in SUBSET (1..knsel)
    /\ kpc = "start"
    /\ kctx = "live"
    /\ kroot = "live"
    /\ ktab = "none"
    /\ ksel = 1
    /\ kwaitOver = FALSE
    /\ kfile = FALSE
    /\ kret = NoCapture

\* the context the browsing context is derived from and chromedp.Run runs
\* under: chromedp.NewContext(inst.Ctx)
RunContext == kroot

\* the error of a context that is done
ContextErr(c) == IF c = "expired" THEN "context deadline exceeded"
                                   ELSE "context canceled"

CaptureReturnsKeepingBuf(buf, err) ==
    /\ kret' = [returned |-> TRUE, err |-> err, buf |-> "png"]
    /\ ktab' = "closed"
    /\ kpc' = "returned"

\* Capture returns (buf, err); the deferred cancel() closes the browsing context
CaptureReturns(buf, err) ==
    /\ kret' = [returned |-> TRUE, err |-> err, buf |-> buf]
    /\ ktab' = "closed"
    /\ kpc' = "returned"

\* tabCtx, cancel := chromedp.NewContext(inst.Ctx); defer cancel()
CaptureOpen ==
    /\ kpc = "start"
    /\ ktab' = "open"
    /\ kpc' = "viewport"
    /\ UNCHANGED <<outsideCapture, kvariant, knsel, kready, kctx, kroot, ksel,
                   kwaitOver, kfile, kret>>

\* an action of the Run list other than waitAny ends with an error: its
\* context is done, or the browser reports a failure
CaptureStepErr ==
    /\ kpc \in {"viewport", "navigate", "waitBody", "settle", "screenshot"}
    /\ CaptureReturns("nil", IF RunContext # "live" THEN ContextErr(RunContext)
                                                    ELSE "browser error")
    /\ UNCHANGED <<outsideCapture, kvariant, knsel, kready, kctx, kroot, ksel,
                   kwaitOver, kfile>>

\* chromedp.EmulateViewport is done
CaptureViewport ==
    /\ kpc = "viewport"
    /\ RunContext = "live"
    /\ kpc' = "navigate"
    /\ UNCHANGED <<outsideCapture, kvariant, knsel, kready, kctx, kroot, ktab, ksel,
                   kwaitOver, kfile, kret>>

\* chromedp.Navigate is done: the page has loaded
CaptureNavigate ==
    /\ kpc = "navigate"
    /\ RunContext = "live"
    /\ kpc' = "waitBody"
    /\ UNCHANGED <<outsideCapture, kvariant, knsel, kready, kctx, kroot, ktab, ksel,
                   kwaitOver, kfile, kret>>

\* chromedp.WaitReady("body") is done; waitAny starts: deadline := now + 10s
CaptureWaitBody ==
    /\ kpc = "waitBody"
    /\ RunContext = "live"
    /\ kpc' = "waitAny"
    /\ ksel' = 1
    /\ kwaitOver' = FALSE
    /\ UNCHANGED <<outsideCapture, kvariant, knsel, kready, kctx, kroot, ktab,
                   kfile, kret>>

\* waitAny: chromedp.Run(ctx, WaitReady(sel)) returns nil: return nil
WaitAnyResolve ==
    /\ kpc = "waitAny"
    /\ ksel <= knsel
    /\ ksel \in kready
    /\ RunContext = "live"
    /\ kpc' = "settle"
    /\ UNCHANGED <<outsideCapture, kvariant, knsel, kready, kctx, kroot, ktab, ksel,
                   kwaitOver, kfile, kret>>

\* waitAny: chromedp.Run(ctx, WaitReady(sel)) returns an error (its context
\* is done, or the browser reports a failure while it waits for a selector
\* the page does not resolve): on to the next selector
WaitAnyErr ==
    /\ kpc = "waitAny"
    /\ ksel <= knsel
    /\ RunContext # "live" \/ ksel \notin kready
    /\ ksel' = ksel + 1
    /\ UNCHANGED <<outsideCapture, kvariant, knsel, kready, kpc, kctx, kroot, ktab,
                   kwaitOver, kfile, kret>>

\* waitAny: after the selectors, time.Now().After(deadline): return the error
WaitAnyTimeout ==
    /\ kpc = "waitAny"
    /\ ksel > knsel
    /\ kwaitOver
    /\ CaptureReturns("nil", "timeout waiting for any selector")
    /\ UNCHANGED <<outsideCapture, kvariant, knsel, kready, kctx, kroot, ksel,
                   kwaitOver, kfile>>

\* waitAny: after the selectors, before the deadline: time.Sleep(50ms), again
WaitAnySleep ==
    /\ kpc = "waitAny"
    /\ ksel > knsel
    /\ ~kwaitOver
    /\ ksel' = 1
    /\ UNCHANGED <<outsideCapture, kvariant, knsel, kready, kpc, kctx, kroot, ktab,
                   kwaitOver, kfile, kret>>

\* the 10 seconds of waitAny pass
WaitTimePasses ==
    /\ kpc = "waitAny"
    /\ ~kwaitOver
    /\ kwaitOver' = TRUE
    /\ UNCHANGED <<outsideCapture, kvariant, knsel, kready, kpc, kctx, kroot, ktab,
                   ksel, kfile, kret>>

\* chromedp.Sleep(50ms) is done
CaptureSettle ==
    /\ kpc = "settle"
    /\ RunContext = "live"
    /\ kpc' = "screenshot"
    /\ UNCHANGED <<outsideCapture, kvariant, knsel, kready, kctx, kroot, ktab, ksel,
                   kwaitOver, kfile, kret>>

\* chromedp.FullScreenshot is done and Run returns nil; the bytes variant
\* returns buf, nil
CaptureScreenshot ==
    /\ kpc = "screenshot"
    /\ RunContext = "live"
    /\ IF kvariant = "file"
          THEN kpc' = "write" /\ UNCHANGED <<ktab, kret>>
          ELSE CaptureReturns("png", "nil")
    /\ UNCHANGED <<outsideCapture, kvariant, knsel, kready, kctx, kroot, ksel,
                   kwaitOver, kfile>>

\* the file variant: return buf, os.WriteFile(outPath, buf, 0o644)
CaptureWrite ==
    /\ kpc = "write"
    /\ \E ok \in BOOLEAN :
          /\ kfile' = ok
          /\ CaptureReturns("png", IF ok THEN "nil" ELSE "write error")
    /\ UNCHANGED <<outsideCapture, kvariant, knsel, kready, kctx, kroot, ksel,
                   kwaitOver>>

\* the deadline of the ctx handed to Capture passes while Capture runs
CtxExpire ==
    /\ kpc \notin {"none", "start", "returned"}
    /\ kctx = "live"
    /\ kctx' = "expired"
    /\ UNCHANGED <<outsideCapture, kvariant, knsel, kready, kpc, kroot, ktab, ksel,
                   kwaitOver, kfile, kret>>

\* the root context is cancelled while Capture runs
RootCancel ==
    /\ kpc \notin {"none", "start", "returned"}
    /\ kroot = "live"
    /\ kroot' = "cancelled"
    /\ UNCHANGED <<outsideCapture, kvariant, knsel, kready, kpc, kctx, ktab, ksel,
                   kwaitOver, kfile, kret>>

InitCapture == IdleSched /\ IdleDiff /\ IdleLaunch /\ IdleRun /\ InitCaptureCall /\ IdleTabs /\ IdleEvents /\ IdleHealth /\ IdleFeed /\ IdleSetup /\ IdleExit

NextCapture ==
    \/ CaptureOpen
    \/ CaptureStepErr
    \/ CaptureViewport
    \/ CaptureNavigate
    \/ CaptureWaitBody
    \/ WaitAnyResolve
    \/ WaitAnyErr
    \/ WaitAnyTimeout
    \/ WaitAnySleep
    \/ WaitTimePasses
    \/ CaptureSettle
    \/ CaptureScreenshot
    \/ CaptureWrite
    \/ CtxExpire
    \/ RootCancel

SpecCapture == InitCapture /\ [][NextCapture]_vars

\* Capture with its scheduling: a step whose guard holds is taken, the clock
\* of waitAny advances, and an operation whose context is done returns its
\* error.  A failure of the browser and the cancelling of a context are not
\* forced.
SpecCaptureFair ==
    /\ SpecCapture
    /\ WF_vars(CaptureOpen)
    /\ WF_vars(CaptureViewport)
    /\ WF_vars(CaptureNavigate)
    /\ WF_vars(CaptureWaitBody)
    /\ WF_vars(CaptureStepErr /\ RunContext # "live")
    /\ WF_vars(WaitAnyResolve)
    /\ WF_vars(WaitAnyErr /\ RunContext # "live")
    /\ WF_vars(WaitAnyTimeout)
    /\ WF_vars(WaitAnySleep)
    /\ WF_vars(WaitTimePasses)
    /\ WF_vars(CaptureSettle)
    /\ WF_vars(CaptureScreenshot)
    /\ WF_vars(CaptureWrite)

\* C9 as stated: once the ctx handed to Capture has expired or been
\* cancelled with a step in progress, Capture does not continue: the only
\* thing it goes on to is returning an error and no image.  (A step that
\* the browser fails at that moment is allowed to report its own error.)
C9_AsStated ==
    [][(kctx # "live" /\ kpc \notin {"none", "start", "returned"}) =>
          \/ kpc' = kpc /\ ksel' = ksel
          \/ /\ kret'.returned
             /\ kret'.err # "nil"
             /\ kret'.buf = "nil"]_vars

\* C12 as stated: when the page resolves one of the selectors, whatever its
\* position, the selector wait (its context live) comes to an end and the
\* capture goes on.
C12_AsStated ==
    (kpc = "waitAny" /\ kready # {} /\ RunContext = "live")
        ~> (kpc # "waitAny" \/ RunContext # "live")

\* C13 as stated: when no selector resolves and the 10 seconds of the
\* selector wait are over, Capture returns an error and no image.
C13_AsStated ==
    (kpc = "waitAny" /\ kready = {} /\ kwaitOver)
        ~> (kret.returned /\ kret.err # "nil" /\ kret.buf = "nil")

\* the steps of Capture in the order of its code, and the step after each
CaptureSteps ==
    <<"start", "viewport", "navigate", "waitBody", "waitAny", "settle", "screenshot">>
StepAfter(pc) ==
    IF \E k \in 1..(Len(CaptureSteps) - 1) : CaptureSteps[k] = pc
       THEN CaptureSteps[(CHOOSE k \in 1..(Len(CaptureSteps) - 1) : CaptureSteps[k] = pc) + 1]
       ELSE "returned"

\* C28: Capture goes from each of its steps (open context, viewport,
\* navigate, wait for the base document, selector wait, settle delay,
\* screenshot) to the next one in that order or to its return, never to
\* another step; when it returns from a step that failed it returns an
\* error and no image bytes, and nothing has been written; it returns
\* without an error only after the screenshot, with the image.
C28_StepsInOrder ==
    [][(kpc' # kpc /\ kpc \in {CaptureSteps[k] : k \in 1..Len(CaptureSteps)}) =>
          \/ kpc' = StepAfter(kpc) /\ kpc' # "returned"
          \/ kpc = "screenshot" /\ kpc' = "write" /\ kvariant = "file"
          \/ /\ kpc' = "returned"
             /\ kret'.returned
             /\ IF kpc = "screenshot" /\ kret'.err = "nil"
                   THEN kret'.buf = "png"
                   ELSE kret'.err # "nil" /\ kret'.buf = "nil" /\ ~kfile']_vars

\* C28 witness: Capture has returned the error of a step the browser
\* failed, with no image bytes and nothing written.
C28_Witness ==
    /\ kret.returned
    /\ kret.err = "browser error"
    /\ kret.buf = "nil"
    /\ ~kfile
    /\ ktab = "closed"

(***************************************************************************)
(* cmd/qsnap main: the tasks on the launched browsers                      *)
(***************************************************************************)
\* LaunchPool(rootCtx, max(*instances, 1)) has returned its instances
InitTabs ==
    /\ IdleHealth /\ IdleFeed /\ IdleSetup /\ IdleExit
    /\ IdleEvents
    /\ IdleDiff /\ IdleRun /\ IdleCapture
    /\ ln \in 0..MaxInstances
    /\ lpc = "returned"
    /\ li = ClampN(ln)
    /\ lt = 1
    /\ lsub = "cancel"
    /\ procs = [k \in 1..ClampN(ln) |-> [ctx |-> TRUE, alloc |-> TRUE]]
    /\ instances = [k \in 1..ClampN(ln) |-> [ID |-> k - 1, proc |-> k]]
    /\ lret = [returned |-> TRUE, isNil |-> FALSE, pool |-> instances, err |-> "nil"]
    /\ picked = 0
    /\ pickIdx = NoPickIdx
    /\ closeCalls = 0
    /\ conc \in RunConcurrencies
    /\ cap = New(conc)
    /\ sem = 0
    /\ wg = 0
    /\ mpc = "loop"
    /\ next = 1
    /\ nsub \in 0..MaxCases
    /\ tpc = [i \in Tasks |-> "idle"]
    /\ panicking = [i \in Tasks |-> FALSE]
    /\ crashed = FALSE
    /\ acq = [i \in Tasks |-> 0]
    /\ rel = [i \in Tasks |-> 0]
    /\ IdleTabs

\* the task closure: b := brs.Pick()
TaskPick(i) ==
    /\ tpc[i] = "fn"
    /\ lret.returned /\ lret.err = "nil"
    /\ tinst[i] = 0
    /\ \E b \in Pick(lret.pool) : tinst' = [tinst EXCEPT ![i] = b.proc]
    /\ UNCHANGED <<poolVars, mainVars, taskVars, diffVars, launchVars, runVars,
                   captureVars, eventVars, healthVars, feedVars, exitVars, setupVars, ttab, tabs>>

NewContextReuse(ts, p) ==
    IF \E k \in 1..Len(ts) : ts[k].proc = p /\ ts[k].open
       THEN ts ELSE Append(ts, [proc |-> p, open |-> TRUE])

\* chromedp.NewContext(inst.Ctx): a new browsing context on the browser of
\* the instance, whatever contexts are open on it
NewContext(ts, p) == Append(ts, [proc |-> p, open |-> TRUE])

\* Capture: tabCtx, cancel := chromedp.NewContext(inst.Ctx)
TaskNewContext(i) ==
    /\ tpc[i] = "fn"
    /\ tinst[i] # 0
    /\ ttab[i] = 0
    /\ tabs' = NewContext(tabs, tinst[i])
    /\ ttab' = [ttab EXCEPT ![i] = Len(tabs')]
    /\ UNCHANGED <<poolVars, mainVars, taskVars, diffVars, launchVars, runVars,
                   captureVars, eventVars, healthVars, feedVars, exitVars, setupVars, tinst>>

CloseOnSuccess(ts, k, failed) ==
    IF failed THEN ts ELSE [ts EXCEPT ![k].open = FALSE]

\* defer cancel(): the browsing context is closed when Capture returns,
\* with an error (failed) or with the screenshot
CloseOnReturn(ts, k, failed) == [ts EXCEPT ![k].open = FALSE]

\* Capture returns, on either of its exit paths, and the closure runs to
\* its end
TaskCaptureEnd(i) ==
    /\ tpc[i] = "fn"
    /\ ttab[i] # 0
    /\ tabs[ttab[i]].open
    /\ \E failed \in BOOLEAN : tabs' = CloseOnReturn(tabs, ttab[i], failed)
    /\ tpc' = Return(i, tpc)
    /\ UNCHANGED <<poolVars, mainVars, panicking, crashed, acq, rel, diffVars,
                   launchVars, runVars, captureVars, eventVars, healthVars, feedVars, exitVars, setupVars,
                   tinst, ttab>>

NextTabs ==
    \/ GoAdd
    \/ GoSend
    \/ LoopEnd
    \/ WaitReturn
    \/ \E i \in Tasks : TaskPick(i)
    \/ \E i \in Tasks : TaskNewContext(i)
    \/ \E i \in Tasks : TaskCaptureEnd(i)
    \/ \E i \in Tasks : TaskRelease(i)
    \/ \E i \in Tasks : TaskDone(i)

SpecTabs == InitTabs /\ [][NextTabs]_vars

\* task i is inside Capture with its browsing context open
Capturing(i) == tpc[i] = "fn" /\ ttab[i] # 0 /\ tabs[ttab[i]].open

\* C17: with one instance asked for, the pool holds exactly one instance
\* and one browser all through the run, every task picks it, and tasks that
\* run at the same time each have a browsing context of their own on it.
C17_OneInstanceShared ==
    ClampN(ln) = 1 =>
        /\ Len(lret.pool) = 1
        /\ Len(procs) = 1
        /\ OpenProcs = {1}
        /\ \A i \in Tasks : tinst[i] \in {0, lret.pool[1].proc}
        /\ \A i \in Tasks : ttab[i] # 0 => tabs[ttab[i]].proc = lret.pool[1].proc
        /\ \A i, j \in Tasks :
              (i # j /\ Capturing(i) /\ Capturing(j)) => ttab[i] # ttab[j]

\* C17 witness: instances = 1, 3 cases, concurrency = 2: the first case is
\* over and the other two are capturing at the same time.
C17_Witness ==
    /\ ln = 1
    /\ nsub = 3
    /\ conc = 2
    /\ tpc[1] = "done"
    /\ Capturing(2)
    /\ Capturing(3)

\* C29: a task's browsing context is one it opened itself on the instance
\* it picked, and no other task has it; when a task leaves Capture, on the
\* error path as on the success path, its browsing context is closed; no
\* step of a task changes the pool or closes a browser; and once Wait has
\* returned no browsing context is open.
C29_TaskClosesOwnContext ==
    /\ [](\A i \in Tasks : ttab[i] # 0 =>
              /\ tabs[ttab[i]].proc = tinst[i]
              /\ \A j \in Tasks : j # i => ttab[j] # ttab[i])
    /\ [][\A i \in Tasks : (tpc[i] = "fn" /\ tpc'[i] # "fn") =>
              /\ ttab[i] # 0
              /\ ~tabs'[ttab[i]].open
              /\ \A k \in 1..Len(tabs) : k # ttab[i] => tabs'[k] = tabs[k]]_vars
    /\ [][UNCHANGED <<procs, instances, lret>>]_vars
    /\ [](OpenProcs = 1..Len(procs))
    /\ [](mpc = "waited" => \A k \in 1..Len(tabs) : ~tabs[k].open)

\* C29 witness: Wait has returned after several tasks, two of them on the
\* same instance; each opened a browsing context and all are closed, and
\* every browser is still open.
C29_Witness ==
    /\ mpc = "waited"
    /\ Len(tabs) > 1
    /\ tabs[1].proc = tabs[2].proc
    /\ Len(procs) > 1
    /\ \A k \in 1..Len(tabs) : ~tabs[k].open
    /\ OpenProcs = 1..Len(procs)

(***************************************************************************)
(* ui.Run: the progress events of the tasks                                *)
(***************************************************************************)
\* every path through the task closure calls sendUI twice: the start event,
\* then the event of its outcome
EventsPerTask == 2

\* sendUI, stopUI := ui.Run(rootCtx, len(configs)) has returned
InitEvents ==
    /\ IdleHealth /\ IdleFeed /\ IdleSetup /\ IdleExit
    /\ IdleDiff /\ IdleLaunch /\ IdleRun /\ IdleCapture /\ IdleTabs
    /\ conc \in RunConcurrencies
    /\ cap = New(conc)
    /\ sem = 0
    /\ wg = 0
    /\ mpc = "loop"
    /\ next = 1
    /\ nsub \in 0..MaxCases
    /\ tpc = [i \in Tasks |-> "idle"]
    /\ panicking = [i \in Tasks |-> FALSE]
    /\ crashed = FALSE
    /\ acq = [i \in Tasks |-> 0]
    /\ rel = [i \in Tasks |-> 0]
    /\ evq = 0
    /\ uipc = "select"
    /\ dropped = 0
    /\ tev = [i \in Tasks |-> 0]

SendProceedsWhenRoom == evq < EventCap

\* send: select { case events <- e: default: } never waits
SendProceeds == TRUE

\* the task closure calls sendUI: the event goes into the channel when
\* there is room, else the default branch drops it
TaskSendUI(i) ==
    /\ tpc[i] = "fn"
    /\ tev[i] < EventsPerTask
    /\ SendProceeds
    /\ IF evq < EventCap
          THEN evq' = evq + 1 /\ dropped' = dropped
          ELSE evq' = evq /\ dropped' = dropped + 1
    /\ tev' = [tev EXCEPT ![i] = tev[i] + 1]
    /\ UNCHANGED <<poolVars, mainVars, taskVars, diffVars, launchVars, runVars,
                   captureVars, tabVars, healthVars, feedVars, exitVars, setupVars, uipc>>

\* the task closure returns after its last event
TaskEventsEnd(i) ==
    /\ tpc[i] = "fn"
    /\ tev[i] = EventsPerTask
    /\ tpc' = Return(i, tpc)
    /\ UNCHANGED <<poolVars, mainVars, panicking, crashed, acq, rel, diffVars,
                   launchVars, runVars, captureVars, tabVars, eventVars,
                   healthVars, feedVars, exitVars, setupVars>>

\* the forwarding goroutine: case ev := <-events
UIReceive ==
    /\ uipc = "select"
    /\ evq > 0
    /\ evq' = evq - 1
    /\ uipc' = "send"
    /\ UNCHANGED <<poolVars, mainVars, taskVars, diffVars, launchVars, runVars,
                   captureVars, tabVars, healthVars, feedVars, exitVars, setupVars, dropped, tev>>

\* the forwarding goroutine: prog.Send(eventMsg(ev)) returns; a program that
\* does not take messages keeps it there
UIDelivered ==
    /\ uipc = "send"
    /\ uipc' = "select"
    /\ UNCHANGED <<poolVars, mainVars, taskVars, diffVars, launchVars, runVars,
                   captureVars, tabVars, healthVars, feedVars, exitVars, setupVars, evq, dropped, tev>>

\* the forwarding goroutine: case <-ctx.Done(), after main has returned
UIQuit ==
    /\ uipc = "select"
    /\ mpc = "waited"
    /\ uipc' = "quit"
    /\ UNCHANGED <<poolVars, mainVars, taskVars, diffVars, launchVars, runVars,
                   captureVars, tabVars, healthVars, feedVars, exitVars, setupVars, evq, dropped, tev>>

NextEvents ==
    \/ GoAdd
    \/ GoSend
    \/ LoopEnd
    \/ WaitReturn
    \/ UIReceive
    \/ UIDelivered
    \/ UIQuit
    \/ \E i \in Tasks : TaskSendUI(i)
    \/ \E i \in Tasks : TaskEventsEnd(i)
    \/ \E i \in Tasks : TaskRelease(i)
    \/ \E i \in Tasks : TaskDone(i)

SpecEvents == InitEvents /\ [][NextEvents]_vars

\* C18: a task that has an event to send can always take the step,
\* whatever the state of the channel and of the forwarding goroutine; with
\* the channel full the send leaves the channel as it is, counts one more
\* dropped event and the task goes on.
C18_SendNeverBlocks ==
    /\ [](\A i \in 1..nsub :
             (tpc[i] = "fn" /\ tev[i] < EventsPerTask) => ENABLED TaskSendUI(i))
    /\ [][\A i \in 1..nsub :
             (tev'[i] # tev[i] /\ evq = EventCap) =>
                 /\ evq' = evq
                 /\ dropped' = dropped + 1
                 /\ tpc'[i] = "fn"]_vars

\* C18 witness: the forwarding goroutine is held in prog.Send, the channel
\* is full, an event has been dropped, and a task that sent its events has
\* released its permit and finished.
C18_Witness ==
    /\ uipc = "send"
    /\ evq = EventCap
    /\ dropped > 0
    /\ \E i \in 1..nsub : tpc[i] = "done" /\ rel[i] = 1

(***************************************************************************)
(* storybook.WaitHTTP, then a Capture, under one root context              *)
(***************************************************************************)
\* everything but the root context and the health wait
outsideHealth == <<poolVars, mainVars, taskVars, diffVars, launchVars, runVars,
                   tabVars, eventVars, setupVars, exitVars, feedVars,
                   kvariant, knsel, kready, kpc, kctx, ktab, ksel, kwaitOver,
                   kfile, kret>>

\* ServeBuildIfNeeded has started the server and calls WaitHTTP; a Capture
\* under the same root follows once the server is ready
InitShutdown ==
    /\ IdleSched /\ IdleDiff /\ IdleLaunch /\ IdleRun /\ IdleTabs /\ IdleEvents /\ IdleSetup /\ IdleExit /\ IdleFeed
    /\ InitCaptureCall
    /\ hpc = "check"
    /\ hover = FALSE
    /\ hret = "none"

\* WaitHTTP: for time.Now().Before(deadline) { ... } return false
HealthCheck ==
    /\ hpc = "check"
    /\ IF hover THEN hpc' = "returned" /\ hret' = "notready"
                ELSE hpc' = "get" /\ hret' = hret
    /\ UNCHANGED <<outsideHealth, kroot, hover>>

\* WaitHTTP: client.Get answers with a status from 200 to 499: return true
HealthGetOk ==
    /\ hpc = "get"
    /\ hpc' = "returned"
    /\ hret' = "ready"
    /\ UNCHANGED <<outsideHealth, kroot, hover>>

\* WaitHTTP: client.Get fails, or answers 5xx (or 1xx): sleep
HealthGetFail ==
    /\ hpc = "get"
    /\ hpc' = "sleep"
    /\ UNCHANGED <<outsideHealth, kroot, hover, hret>>

\* WaitHTTP: time.Sleep(250ms) is over
HealthSleep ==
    /\ hpc = "sleep"
    /\ hpc' = "check"
    /\ UNCHANGED <<outsideHealth, kroot, hover, hret>>

\* the wait timeout handed to WaitHTTP elapses
HealthTimePasses ==
    /\ hpc \in {"check", "get", "sleep"}
    /\ ~hover
    /\ hover' = TRUE
    /\ UNCHANGED <<outsideHealth, kroot, hpc, hret>>

\* the root context is cancelled while WaitHTTP runs: WaitHTTP is handed no
\* context, and ServeBuildIfNeeded drops the one it derives from parent
HealthRootCancel ==
    /\ hpc \in {"check", "get", "sleep"}
    /\ kroot = "live"
    /\ kroot' = "cancelled"
    /\ UNCHANGED <<outsideHealth, healthVars>>

NextShutdown ==
    \/ HealthCheck
    \/ HealthGetOk
    \/ HealthGetFail
    \/ HealthSleep
    \/ HealthTimePasses
    \/ HealthRootCancel
    \/ (hret = "ready" /\ NextCapture)

SpecShutdown == InitShutdown /\ [][NextShutdown]_vars

\* C19 as stated: once the root context is cancelled, a browser operation
\* of a Capture in flight does not complete (Capture stays where it is or
\* returns an error and no image), and a health wait whose timeout has not
\* elapsed makes no further attempt (it stays where it is or returns).
C19_AsStated ==
    [][/\ (kroot # "live" /\ kpc \in {"viewport", "navigate", "waitBody", "waitAny",
                                       "settle", "screenshot"}) =>
              \/ kpc' = kpc
              \/ kret'.returned /\ kret'.err # "nil" /\ kret'.buf = "nil"
       /\ (kroot # "live" /\ hpc \in {"check", "get", "sleep"} /\ ~hover) =>
              hpc' \in {hpc, "returned"}]_vars

(***************************************************************************)
(* cmd/qsnap main: one submitted case, its deadline and its Capture        *)
(***************************************************************************)
\* one case is submitted; its closure makes ctx with context.WithTimeout and
\* calls Capture(ctx, b, ...)
InitDeadline ==
    /\ IdleDiff /\ IdleLaunch /\ IdleRun /\ IdleTabs /\ IdleEvents /\ IdleHealth /\ IdleFeed /\ IdleSetup /\ IdleExit
    /\ InitCaptureCall
    /\ conc \in RunConcurrencies
    /\ cap = New(conc)
    /\ sem = 0
    /\ wg = 0
    /\ mpc = "loop"
    /\ next = 1
    /\ nsub = 1
    /\ tpc = [i \in Tasks |-> "idle"]
    /\ panicking = [i \in Tasks |-> FALSE]
    /\ crashed = FALSE
    /\ acq = [i \in Tasks |-> 0]
    /\ rel = [i \in Tasks |-> 0]

\* the closure of the case is running
InTask == tpc[1] = "fn"

\* Capture has returned: the closure stores the case's result (after the
\* comparison, which does not wait for anything) and returns
TaskAfterCapture ==
    /\ InTask
    /\ kret.returned
    /\ tpc' = Return(1, tpc)
    /\ UNCHANGED <<poolVars, mainVars, panicking, crashed, acq, rel, outsideSched>>

NextDeadline ==
    \/ GoAdd
    \/ GoSend
    \/ LoopEnd
    \/ WaitReturn
    \/ (InTask /\ NextCapture)
    \/ TaskAfterCapture
    \/ TaskRelease(1)
    \/ TaskDone(1)

SpecDeadline == InitDeadline /\ [][NextDeadline]_vars

\* the scheduling: every goroutine that can take a step takes it, the
\* clock of waitAny advances, the deadline of the task's ctx passes, and an
\* operation whose context is done returns its error.  A failure of the
\* browser and the cancelling of the root context are not forced.
SpecDeadlineFair ==
    /\ SpecDeadline
    /\ WF_vars(GoAdd)
    /\ WF_vars(GoSend)
    /\ WF_vars(LoopEnd)
    /\ WF_vars(WaitReturn)
    /\ WF_vars(TaskAfterCapture)
    /\ WF_vars(TaskRelease(1))
    /\ WF_vars(TaskDone(1))
    /\ WF_vars(InTask /\ CaptureOpen)
    /\ WF_vars(InTask /\ CaptureViewport)
    /\ WF_vars(InTask /\ CaptureNavigate)
    /\ WF_vars(InTask /\ CaptureWaitBody)
    /\ WF_vars(InTask /\ CaptureStepErr /\ RunContext # "live")
    /\ WF_vars(InTask /\ WaitAnyResolve)
    /\ WF_vars(InTask /\ WaitAnyErr /\ RunContext # "live")
    /\ WF_vars(InTask /\ WaitAnyTimeout)
    /\ WF_vars(InTask /\ WaitAnySleep)
    /\ WF_vars(InTask /\ WaitTimePasses)
    /\ WF_vars(InTask /\ CaptureSettle)
    /\ WF_vars(InTask /\ CaptureScreenshot)
    /\ WF_vars(InTask /\ CaptureWrite)
    /\ WF_vars(InTask /\ CtxExpire)

\* C27 as stated: the submitted case eventually reaches its end and Wait
\* eventually returns, whether or not the page resolves a selector.
C27_AsStated == <>(tpc[1] = "done" /\ mpc = "waited")

(***************************************************************************)
(* internal/config: the case declarations, and main up to the submitting   *)
(***************************************************************************)
outsideSetup == <<poolVars, mainVars, taskVars, diffVars, launchVars, runVars,
                  captureVars, tabVars, eventVars, healthVars, feedVars, exitVars>>

\* type Size
Size(name, w, h) == [Name |-> name, Width |-> w, Height |-> h]

\* cfg.DefaultSizes: NewOsnapBaseConfig has checked that there is one and
\* that every Width and Height is positive
DefaultSizes == <<Size("sm", 1, 2), Size("lg", 2, 1)>>

\* the value of the sizes key of a declaration in the YAML file: absent, a
\* list of strings, a list of size objects, one size object, or a scalar
SizesYaml(kind, names, sizes) == [kind |-> kind, names |-> names, sizes |-> sizes]
SizesForms ==
    {SizesYaml("absent", <<>>, <<>>), SizesYaml("scalar", <<>>, <<>>)}
    \cup {SizesYaml("strings", n, <<>>) : n \in {<<"sm">>, <<"xl">>}}
    \cup {SizesYaml("list", <<>>, <<z>>) :
             z \in {Size("", 1, 1), Size("", 0, 1), Size("", 1, -1)}}
    \cup {SizesYaml("object", <<>>, <<z>>) :
             z \in {Size("", 1, 1), Size("", 0, 0), Size("", -1, 0)}}

\* the threshold key of a declaration, a *int: absent (nil) or a number
NoThreshold == [set |-> FALSE, v |-> 0]
ThresholdForms == {NoThreshold} \cup {[set |-> TRUE, v |-> t] : t \in {-1, 100, 101}}

\* a declaration of the file, and the files tried: one or two declarations
Decl(name, sizes, threshold) == [Name |-> name, Sizes |-> sizes, Threshold |-> threshold]
Decls == {Decl(n, z, t) : n \in {"", "button"}, z \in SizesForms, t \in ThresholdForms}
DeclFiles == {<<d>> : d \in Decls} \cup {<<d, e>> : d \in Decls, e \in Decls}

\* type Sizes; One is <<>> for nil
NoSizes == [err |-> "nil", Strings |-> <<>>, Structs |-> <<>>, One |-> <<>>]

\* Sizes.UnmarshalYAML: []string, then []Size, then a Size that has a
\* non-zero Width or Height, else an error; not called for an absent key
UnmarshalSizes(y) ==
    IF y.kind = "absent" THEN NoSizes
    ELSE IF y.kind = "strings" THEN [NoSizes EXCEPT !.Strings = y.names]
    ELSE IF y.kind = "list" THEN [NoSizes EXCEPT !.Structs = y.sizes]
    ELSE IF y.kind = "object" /\ (y.sizes[1].Width # 0 \/ y.sizes[1].Height # 0)
            THEN [NoSizes EXCEPT !.One = y.sizes]
    ELSE [NoSizes EXCEPT !.err = "unsupported format for sizes"]

\* Sizes.AsSizes
AsSizes(s) == IF s.One # <<>> THEN s.One ELSE s.Structs

\* newC := *c; newC.Width = w; newC.Height = h
WithSize(c, w, h) ==
    [Name |-> c.Name, Threshold |-> c.Threshold, Width |-> w, Height |-> h]

\* NewOsnapConfig, the loop over the names of sizes: one case for each name
\* that is the Name of a default size, with the first such size
RECURSIVE ExpandStrings(_, _)
ExpandStrings(c, ss) ==
    IF ss = <<>> THEN <<>>
    ELSE LET m == SelectSeq(DefaultSizes, LAMBDA ds : ds.Name = Head(ss))
         IN  (IF m = <<>> THEN <<>> ELSE <<WithSize(c, m[1].Width, m[1].Height)>>)
                 \o ExpandStrings(c, Tail(ss))

\* NewOsnapConfig, the loops over sizes: one case for each size
ExpandSizes(c, sz) == [k \in 1..Len(sz) |-> WithSize(c, sz[k].Width, sz[k].Height)]

\* NewOsnapConfig, the body of the loop over the declarations
Expand(c) ==
    LET s == UnmarshalSizes(c.Sizes)
    IN  IF Len(s.Strings) > 0 THEN ExpandStrings(c, s.Strings)
        ELSE IF Len(AsSizes(s)) > 0 THEN ExpandSizes(c, AsSizes(s))
        ELSE ExpandSizes(c, DefaultSizes)

RECURSIVE ExpandAll(_)
ExpandAll(ds) == IF ds = <<>> THEN <<>> ELSE Expand(Head(ds)) \o ExpandAll(Tail(ds))

\* NewOsnapConfig: (res, err); Decode fails when a sizes key cannot be
\* unmarshalled, and nothing else about a declaration is looked at
NewOsnapConfig(ds) ==
    IF \E k \in 1..Len(ds) : UnmarshalSizes(ds[k].Sizes).err # "nil"
       THEN [err |-> "yaml", res |-> <<>>]
       ELSE [err |-> "nil", res |-> ExpandAll(ds)]

InitSetup ==
    /\ IdleSched /\ IdleDiff /\ IdleLaunch /\ IdleRun /\ IdleCapture
    /\ IdleTabs /\ IdleEvents /\ IdleHealth /\ IdleFeed /\ IdleExit
    /\ sdecls \in DeclFiles
    /\ spc = "parse"
    /\ configs = <<>>
    /\ submitted = <<>>

\* main: configs, err := cfg.FindAndParseConfigs(*input); an error is fatal
FindAndParseConfigs ==
    /\ spc = "parse"
    /\ LET r == NewOsnapConfig(sdecls)
       IN  IF r.err # "nil"
              THEN spc' = "fatal" /\ configs' = <<>>
              ELSE spc' = "loop" /\ configs' = r.res
    /\ UNCHANGED <<outsideSetup, sdecls, submitted>>

\* main, the loop over configs: wp.Go(func() {...}) for the next case
SubmitCase ==
    /\ spc = "loop"
    /\ Len(submitted) < Len(configs)
    /\ submitted' = Append(submitted, configs[Len(submitted) + 1])
    /\ UNCHANGED <<outsideSetup, sdecls, spc, configs>>

\* main: the loop is over, wp.Wait() follows
SubmitEnd ==
    /\ spc = "loop"
    /\ Len(submitted) = Len(configs)
    /\ spc' = "wait"
    /\ UNCHANGED <<outsideSetup, sdecls, configs, submitted>>

NextSetup ==
    \/ FindAndParseConfigs
    \/ SubmitCase
    \/ SubmitEnd

SpecSetup == InitSetup /\ [][NextSetup]_vars

\* C24 as stated: every case handed to the scheduler has a non-empty name,
\* a positive width and height, and a threshold, when it has one, within
\* [0,100].
C24_AsStated ==
    \A k \in 1..Len(submitted) :
        /\ submitted[k].Name # ""
        /\ submitted[k].Width > 0
        /\ submitted[k].Height > 0
        /\ submitted[k].Threshold.set => submitted[k].Threshold.v \in 0..100

\* the number of sizes a declaration asks for: its size names, its size
\* objects, or the default sizes when it has no sizes key
RequestedCount(c) ==
    IF c.Sizes.kind = "strings" THEN Len(c.Sizes.names)
    ELSE IF c.Sizes.kind \in {"list", "object"} THEN Len(c.Sizes.sizes)
    ELSE Len(DefaultSizes)

\* the number of sizes the declarations before the k-th ask for
RECURSIVE RequestedBefore(_, _)
RequestedBefore(ds, k) ==
    IF k <= 1 THEN 0
    ELSE RequestedBefore(ds, k - 1) + RequestedCount(ds[k - 1])

\* sc has the width and height of the j-th size declaration c asks for
IsRequestedSize(c, j, sc) ==
    IF c.Sizes.kind = "strings"
       THEN \E d \in 1..Len(DefaultSizes) :
               /\ DefaultSizes[d].Name = c.Sizes.names[j]
               /\ sc.Width = DefaultSizes[d].Width
               /\ sc.Height = DefaultSizes[d].Height
    ELSE IF c.Sizes.kind \in {"list", "object"}
       THEN sc.Width = c.Sizes.sizes[j].Width /\ sc.Height = c.Sizes.sizes[j].Height
    ELSE sc.Width = DefaultSizes[j].Width /\ sc.Height = DefaultSizes[j].Height

\* C36 as stated: once the file is parsed, the case list is, declaration by
\* declaration in declared order, one case per size the declaration asks
\* for (each listed size name, each listed size object, or each default
\* size when no sizes are given), in the order of those sizes, and every
\* declaration has at least one case.
C36_AsStated ==
    spc \in {"loop", "wait"} =>
        /\ Len(configs) = RequestedBefore(sdecls, Len(sdecls) + 1)
        /\ \A k \in 1..Len(sdecls) :
              LET c == sdecls[k]
                  off == RequestedBefore(sdecls, k)
                  n == RequestedCount(c)
              IN  /\ n >= 1
                  /\ off + n <= Len(configs)
                  /\ \A j \in 1..n :
                        /\ configs[off + j].Name = c.Name
                        /\ IsRequestedSize(c, j, configs[off + j])

(***************************************************************************)
(* cmd/qsnap main: the threshold of a case and the status of its result    *)
(***************************************************************************)
\* the images tried: those of at most two pixels
SmallImages == {img \in Images : img.w * img.h <= 2}

\* cfg.Threshold values tried here (NewOsnapBaseConfig admits 0..100), and
\* the threshold keys of a case that are within that range
BaseThresholds == {0, 1, 100}
CaseThresholds == {NoThreshold} \cup {[set |-> TRUE, v |-> t] : t \in BaseThresholds}

\* one case, decoded baseline and candidate, nothing compared yet
InitThreshold ==
    /\ IdleSched /\ IdleLaunch /\ IdleCapture /\ IdleTabs /\ IdleEvents /\ IdleHealth /\ IdleFeed
    /\ IdleExit
    /\ dA \in SmallImages
    /\ dB \in SmallImages
    /\ dThr = <<0, 1>>
    /\ dRes = NoResult
    /\ variant = "bytes"
    /\ nconfigs = 1
    /\ limit = 0
    /\ cfgThreshold \in BaseThresholds
    /\ results = <<ZeroResult>>
    /\ report = NoReport
    /\ tbuf = [i \in Tasks |-> NoImage]
    /\ fs = <<>>
    /\ runs = 1
    /\ sdecls = <<>>
    /\ spc = "loop"
    /\ \E t \in CaseThresholds :
          configs = <<WithSize(Decl("button", SizesYaml("absent", <<>>, <<>>), t), 1, 1)>>
    /\ submitted = <<>>

\* threshold := cfg.Threshold; if s.Threshold != nil { threshold = *s.Threshold }
EffectiveThreshold(base, s) == IF s.Threshold.set THEN s.Threshold.v ELSE base

Percent(threshold) == <<threshold, 100>>

\* float64(threshold): the number itself, as a fraction
Float64(threshold) == <<threshold, 1>>

\* the task closure: the threshold of the case is chosen
TaskThreshold ==
    /\ spc = "loop"
    /\ submitted = <<>>
    /\ submitted' = <<configs[1]>>
    /\ dThr' = Float64(EffectiveThreshold(cfgThreshold, configs[1]))
    /\ UNCHANGED <<poolVars, mainVars, taskVars, launchVars, runVars, captureVars,
                   tabVars, eventVars, healthVars, feedVars, exitVars, dA, dB, dRes, sdecls, spc, configs>>

\* the task closure: CompareFiles on the decoded images, the status, and
\* the CaseResult at the index of the case
TaskThresholdCompare ==
    /\ submitted # <<>>
    /\ dRes = NoResult
    /\ dRes' = PixelDiff(dA, dB, MaxZero(dThr))
    /\ \E hd \in (IF dA = dB THEN {0} ELSE PHashDistances) :
          results' = IF dRes'.err # "nil"
                        THEN StoreAt(results, 1, ErrorResult(1, dRes'.err))
                        ELSE StoreAt(results, 1,
                                     DoneResult(1, dRes'.px, PHash(hd, PHashAllowed)))
    /\ UNCHANGED <<poolVars, mainVars, taskVars, launchVars, captureVars,
                   tabVars, eventVars, healthVars, feedVars, exitVars, setupVars, dA, dB, dThr,
                   variant, nconfigs, limit, cfgThreshold, report, tbuf, fs, runs>>

NextThreshold ==
    \/ TaskThreshold
    \/ TaskThresholdCompare

SpecThreshold == InitThreshold /\ [][NextThreshold]_vars

\* C33: when the threshold in effect for a case (its own, else the base
\* configuration's) is 1 or more, a comparison that completes without
\* error passes the pixel comparison and the case does not get status fail,
\* whatever the fraction of differing pixels.
C33_ThresholdOneNeverFails ==
    (/\ EffectiveThreshold(cfgThreshold, configs[1]) >= 1
     /\ results[1].Status # ""
     /\ results[1].Error = "") =>
        /\ results[1].Status = "pass"
        /\ results[1].PixelDiff.Pass

\* C33 witness: the case overrides a base threshold of 0 with 1, every
\* pixel of the candidate differs from the baseline, and the status is pass.
C33_Witness ==
    /\ cfgThreshold = 0
    /\ configs[1].Threshold.set
    /\ configs[1].Threshold.v = 1
    /\ results[1].Status = "pass"
    /\ results[1].PixelDiff.RatioDiff = <<2, 2>>

(***************************************************************************)
(* cmd/qsnap main: the ways the run ends once the browsers are launched    *)
(***************************************************************************)
outsideExit == <<diffVars, runVars, captureVars, tabVars, eventVars, healthVars, feedVars,
                 setupVars>>

\* ServeBuildIfNeeded found a server or started one, LaunchPool has returned
\* its instances, and the loop over the cases begins
InitExit ==
    /\ IdleDiff /\ IdleRun /\ IdleCapture /\ IdleTabs /\ IdleEvents /\ IdleHealth /\ IdleFeed
    /\ IdleSetup
    /\ ln \in 0..MaxInstances
    /\ lpc = "returned"
    /\ li = ClampN(ln)
    /\ lt = 1
    /\ lsub = "cancel"
    /\ procs = [k \in 1..ClampN(ln) |-> [ctx |-> TRUE, alloc |-> TRUE]]
    /\ instances = [k \in 1..ClampN(ln) |-> [ID |-> k - 1, proc |-> k]]
    /\ lret = [returned |-> TRUE, isNil |-> FALSE, pool |-> instances, err |-> "nil"]
    /\ picked = 0
    /\ pickIdx = NoPickIdx
    /\ closeCalls = 0
    /\ conc \in RunConcurrencies
    /\ cap = New(conc)
    /\ sem = 0
    /\ wg = 0
    /\ mpc = "loop"
    /\ next = 1
    /\ nsub \in 0..MaxRunCases
    /\ tpc = [i \in Tasks |-> "idle"]
    /\ panicking = [i \in Tasks |-> FALSE]
    /\ crashed = FALSE
    /\ acq = [i \in Tasks |-> 0]
    /\ rel = [i \in Tasks |-> 0]
    /\ srv \in {"external", "serving"}
    /\ xpc = "run"

\* main after wp.Wait(): report.Write; on an error log.Fatal, which calls
\* os.Exit(1), and deferred calls do not run on os.Exit; else main returns
\* and its deferred calls run, last deferred first
MainWrite ==
    /\ mpc = "waited"
    /\ xpc = "run"
    /\ \E ok \in BOOLEAN : xpc' = IF ok THEN "closeall" ELSE "fatal"
    /\ mpc' = "exit"
    /\ UNCHANGED <<poolVars, next, nsub, taskVars, launchVars, outsideExit, srv>>

\* the deferred brs.CloseAll() is called
DeferredCloseAll ==
    /\ xpc = "closeall"
    /\ closeCalls = 0
    /\ CloseAllStart

\* the deferred func() { if ctrl != nil { ctrl.Stop() } }(): Stop shuts
\* down the server this run started; then the process exits
DeferredStop ==
    /\ xpc = "closeall"
    /\ closeCalls = 1
    /\ lpc = "returned"
    /\ srv' = IF srv = "serving" THEN "stopped" ELSE srv
    /\ xpc' = "returned"
    /\ UNCHANGED <<poolVars, mainVars, taskVars, launchVars, outsideExit>>

NextExit ==
    \/ GoAdd
    \/ GoSend
    \/ LoopEnd
    \/ WaitReturn
    \/ \E i \in Tasks : FnReturn(i)
    \/ \E i \in Tasks : TaskRelease(i)
    \/ \E i \in Tasks : TaskDone(i)
    \/ MainWrite
    \/ DeferredCloseAll
    \/ CloseCancel
    \/ CloseAlloc
    \/ CloseAllReturn
    \/ DeferredStop

SpecExit == InitExit /\ [][NextExit]_vars

\* C34 as stated: however the run ends after the pool was launched, when
\* the process has exited every browser instance has been released and a
\* server the run started has been stopped.
C34_AsStated ==
    xpc \in {"returned", "fatal"} =>
        /\ OpenProcs = {}
        /\ srv # "serving"

(***************************************************************************)
(* cmd/qsnap main with the progress feed: the task closure of the file     *)
(* variant, which tells the ui package when a case starts and how it ends  *)
(***************************************************************************)

\* what the task closure with the feed leaves alone
outsideFeed == <<diffVars, launchVars, captureVars, healthVars, exitVars, setupVars>>

\* sizes of the pool the cases are spread over, and numbers of cases
FeedPools == {1, 2}
FeedCases == {1, 2}
\* the baseline directory at the start: every baseline there, or the first
\* missing and the second not a PNG
FeedLayouts ==
    {[i \in Tasks |-> Png(BaseImage)],
     [i \in Tasks |-> IF i = 1 THEN Absent ELSE Corrupt]}

\* ui.Event{Type: ui.EvtStart, Name, URL, Instance}
StartEvent(i, inst) ==
    [Type |-> "start", Name |-> i, Instance |-> inst, Status |-> "", Error |-> ""]

DoneEventAsPass(i, inst, status, err) ==
    [Type |-> "done", Name |-> i, Instance |-> inst, Status |-> "pass", Error |-> err]

\* ui.Event{Type: ui.EvtDone, Name, URL, Instance, Status, Error}
DoneEvent(i, inst, status, err) ==
    [Type |-> "done", Name |-> i, Instance |-> inst, Status |-> status, Error |-> err]

\* instID, the closure's copy of b.ID
InstID(i) == lret.pool[tinst[i]].ID

\* sendUI(e): select { case events <- e: default: }
SendUI(i, e) ==
    /\ IF evq < EventCap
          THEN evq' = evq + 1 /\ dropped' = dropped
          ELSE evq' = evq /\ dropped' = dropped + 1
    /\ tev' = [tev EXCEPT ![i] = tev[i] + 1]
    /\ fsent' = [fsent EXCEPT ![i] = Append(fsent[i], e)]

\* the pool is launched, the result list is made, ui.Run has started the
\* forwarding goroutine and the loop over the cases begins
InitFeed ==
    /\ IdleDiff /\ IdleCapture /\ IdleTabs /\ IdleHealth /\ IdleFeed /\ IdleSetup
    /\ IdleExit
    /\ ln \in FeedPools
    /\ lpc = "returned"
    /\ li = ClampN(ln)
    /\ lt = 1
    /\ lsub = "cancel"
    /\ procs = [k \in 1..ClampN(ln) |-> [ctx |-> TRUE, alloc |-> TRUE]]
    /\ instances = [k \in 1..ClampN(ln) |-> [ID |-> k - 1, proc |-> k]]
    /\ lret = [returned |-> TRUE, isNil |-> FALSE, pool |-> instances, err |-> "nil"]
    /\ picked = 0
    /\ pickIdx = NoPickIdx
    /\ closeCalls = 0
    /\ variant = "file"
    /\ nconfigs \in FeedCases
    /\ limit = 0
    /\ cfgThreshold = 0
    /\ results = [i \in 1..ResultsLen(nconfigs, limit) |-> ZeroResult]
    /\ report = NoReport
    /\ tbuf = [i \in Tasks |-> NoImage]
    /\ \E layout \in FeedLayouts :
          fs = [q \in Paths |-> IF q.dir = "__base_images__" THEN layout[q.case]
                                                             ELSE Absent]
    /\ runs = 1
    /\ InitRunSched
    /\ evq = 0
    /\ uipc = "select"
    /\ dropped = 0
    /\ tev = [i \in Tasks |-> 0]

\* the closure up to the start event: b := brs.Pick(), instID := b.ID,
\* sendUI(start)
FeedStart(i) ==
    /\ tpc[i] = "fn"
    /\ variant = "file"
    /\ \E b \in Pick(lret.pool) :
          /\ tinst' = [tinst EXCEPT ![i] = b.proc]
          /\ SendUI(i, StartEvent(i, b.ID))
    /\ tpc' = [tpc EXCEPT ![i] = "capture"]
    /\ UNCHANGED <<poolVars, mainVars, panicking, crashed, acq, rel, outsideFeed,
                   runVars, ttab, tabs, uipc, model, umsg>>

\* snapshot.Capture returns an error: the error result is stored, the done
\* event is sent and the closure returns
FeedCaptureErr(i) ==
    /\ tpc[i] = "capture"
    /\ results' = StoreAt(results, i, ErrorResult(i, "capture"))
    /\ SendUI(i, DoneEvent(i, InstID(i), "error", "capture"))
    /\ tpc' = Return(i, tpc)
    /\ UNCHANGED <<poolVars, mainVars, panicking, crashed, acq, rel, outsideFeed,
                   variant, nconfigs, limit, cfgThreshold, report, tbuf, fs, runs,
                   tabVars, uipc, model, umsg>>

\* snapshot.Capture returns the screenshot, written to pngPath
FeedCaptureOk(i) ==
    /\ tpc[i] = "capture"
    /\ \E img \in RunImages :
          /\ tbuf' = [tbuf EXCEPT ![i] = img]
          /\ fs' = [fs EXCEPT ![DiffPath(i)] = Png(img)]
    /\ tpc' = [tpc EXCEPT ![i] = "compare"]
    /\ UNCHANGED <<poolVars, mainVars, panicking, crashed, acq, rel, outsideFeed,
                   variant, nconfigs, limit, cfgThreshold, results, report, runs,
                   tabVars, eventVars, feedVars>>

\* the closure from CompareFiles on: on an error the error result and the
\* done event with status error; else status, the result and the done event
\* with status
FeedCompare(i) ==
    /\ tpc[i] = "compare"
    /\ \E hd \in (IF OpenPNG(fs[BaselinePath(i)]).img = OpenPNG(Candidate(i)).img
                     THEN {0} ELSE PHashDistances), saved \in BOOLEAN :
          LET r == CompareFiles(fs[BaselinePath(i)], Candidate(i), ArtifactPath(i),
                                <<cfgThreshold, 1>>, PHashAllowed, hd)
          IN  IF r.err # "nil"
                 THEN /\ results' = StoreAt(results, i, ErrorResult(i, r.err))
                      /\ SendUI(i, DoneEvent(i, InstID(i), "error", r.err))
                      /\ saved
                      /\ fs' = fs
                 ELSE /\ results' = StoreAt(results, i, DoneResult(i, r.px, r.ph))
                      /\ SendUI(i, DoneEvent(i, InstID(i), StatusOf("nil", r.px), ""))
                      /\ IF r.save
                            THEN fs' = IF saved
                                          THEN [fs EXCEPT ![ArtifactPath(i)] = Png(r.diffImg)]
                                          ELSE fs
                            ELSE saved /\ fs' = fs
    /\ tbuf' = [tbuf EXCEPT ![i] = NoImage]
    /\ tpc' = Return(i, tpc)
    /\ UNCHANGED <<poolVars, mainVars, panicking, crashed, acq, rel, outsideFeed,
                   variant, nconfigs, limit, cfgThreshold, report, runs,
                   tabVars, uipc, model, umsg>>

NextFeed ==
    \/ GoAdd
    \/ GoSend
    \/ LoopEnd
    \/ WaitReturn
    \/ UIReceive
    \/ UIDelivered
    \/ UIQuit
    \/ \E i \in Tasks : FeedStart(i)
    \/ \E i \in Tasks : FeedCaptureErr(i)
    \/ \E i \in Tasks : FeedCaptureOk(i)
    \/ \E i \in Tasks : FeedCompare(i)
    \/ \E i \in Tasks : TaskRelease(i)
    \/ \E i \in Tasks : TaskDone(i)

SpecFeed == InitFeed /\ [][NextFeed]_vars

\* C35: in the run with the progress feed a task that has not sent its
\* start event has done none of its work (nothing captured, nothing written,
\* no result stored; it has only picked the instance the event names); while
\* it captures and compares it has sent that one start event and nothing
\* else; and once it has taken any of its exits (capture error, diff error,
\* completed comparison) it has sent exactly one start event followed by
\* exactly one done event, whose status and error text are those of the
\* result stored for the case.
C35_StartAndDone ==
    /\ [](\A i \in 1..nsub :
             /\ tpc[i] \in {"idle", "fn"} => fsent[i] = <<>>
             /\ tpc[i] \in {"capture", "compare"} =>
                    /\ fsent[i] = <<StartEvent(i, InstID(i))>>
                    /\ results[i] = ZeroResult
             /\ Stored(i) =>
                    /\ Len(fsent[i]) = 2
                    /\ fsent[i][1] = StartEvent(i, InstID(i))
                    /\ fsent[i][2].Type = "done"
                    /\ fsent[i][2].Name = i
                    /\ fsent[i][2].Instance = InstID(i)
                    /\ results[i].Status \in Statuses
                    /\ fsent[i][2].Status = results[i].Status
                    /\ fsent[i][2].Error = results[i].Error)
    /\ [][\A i \in 1..nsub :
             fsent[i] = <<>> =>
                 /\ results'[i] = results[i]
                 /\ tbuf'[i] = tbuf[i]
                 /\ fs'[DiffPath(i)] = fs[DiffPath(i)]
                 /\ fs'[ArtifactPath(i)] = fs[ArtifactPath(i)]]_vars

\* C35 witness: of two cases on two instances the first ended in a capture
\* error and the second in a failed comparison, each sent its start and its
\* done event with that status, and the full channel dropped one of them.
C35_Witness ==
    /\ nsub = 2
    /\ Stored(1) /\ Stored(2)
    /\ InstID(1) # InstID(2)
    /\ results[1].Error = "capture"
    /\ fsent[1][2].Status = "error"
    /\ results[2].Status = "fail"
    /\ fsent[2][2].Status = "fail"
    /\ dropped >= 1

(***************************************************************************)
(* ui: the progress model and the messages the program delivers to it     *)
(***************************************************************************)

\* what Model.Update leaves alone
outsideModel == <<poolVars, mainVars, taskVars, diffVars, launchVars, runVars,
                  captureVars, tabVars, eventVars, healthVars, exitVars, setupVars>>

\* values of maxLog tried (Run passes 12), and the numbers of completed
\* cases at which a further message is still delivered
MaxLogs == {0, 1, 2}
DoneCounts == {0, 1, 2}

\* the status of a done event: one of the four, or the zero value
EventStatuses == Statuses \cup {""}

\* tickMsg
TickMsg == [Type |-> "tick", Name |-> 0, Instance |-> 0, Status |-> "", Error |-> ""]

\* m.logs[len(m.logs)-m.maxLog:] when len(m.logs) > m.maxLog
KeepAll(logs, maxLog) == logs

Trim(logs, maxLog) ==
    IF Len(logs) > maxLog THEN SubSeq(logs, Len(logs) - maxLog + 1, Len(logs))
                          ELSE logs

\* len(m.active)
LenActive(active) == Cardinality({n \in FeedNames : active[n].present})

\* case "pass": m.counts.passed++ ... case "error": m.counts.errored++
CountDone(counts, status) ==
    [running |-> counts.running,
     passed |-> counts.passed + (IF status = "pass" THEN 1 ELSE 0),
     failed |-> counts.failed + (IF status = "fail" THEN 1 ELSE 0),
     nobase |-> counts.nobase + (IF status = "no-baseline" THEN 1 ELSE 0),
     errored |-> counts.errored + (IF status = "error" THEN 1 ELSE 0),
     completed |-> counts.completed + 1]

\* Model.Update: the model it returns
Update(m, msg) ==
    IF msg.Type = "start"
       THEN IF m.active[msg.Name].present THEN m
            ELSE LET a == [m.active EXCEPT ![msg.Name] =
                               [present |-> TRUE, instance |-> msg.Instance]]
                 IN  [m EXCEPT !.active = a, !.counts.running = LenActive(a)]
    ELSE IF msg.Type = "done"
       THEN IF ~m.active[msg.Name].present THEN m
            ELSE LET it == m.active[msg.Name]
                     a == [m.active EXCEPT ![msg.Name] = NoActive]
                     item == [name |-> msg.Name, instance |-> it.instance,
                              status |-> msg.Status, err |-> msg.Error]
                 IN  [m EXCEPT !.active = a,
                               !.logs = Trim(Append(m.logs, item), m.maxLog),
                               !.counts = CountDone([m.counts EXCEPT
                                                        !.running = LenActive(a)],
                                                    msg.Status)]
    ELSE m

\* tea.NewProgram(New(total, maxLog)): nothing delivered yet
InitModel ==
    /\ IdleSched /\ IdleDiff /\ IdleLaunch /\ IdleRun /\ IdleCapture /\ IdleTabs
    /\ IdleEvents /\ IdleHealth /\ IdleSetup /\ IdleExit
    /\ fsent = [i \in Tasks |-> <<>>]
    /\ \E total \in FeedCases, maxLog \in MaxLogs : model = NewModel(total, maxLog)
    /\ umsg = NoMsg

\* the program calls Update with a tickMsg
UpdateTick ==
    /\ model.counts.completed \in DoneCounts
    /\ model' = Update(model, TickMsg)
    /\ umsg' = TickMsg
    /\ UNCHANGED <<outsideModel, fsent>>

\* the program calls Update with the eventMsg of a start event
UpdateStart ==
    /\ model.counts.completed \in DoneCounts
    /\ \E n \in FeedNames, inst \in FeedInstances :
          /\ model' = Update(model, StartEvent(n, inst))
          /\ umsg' = StartEvent(n, inst)
    /\ UNCHANGED <<outsideModel, fsent>>

\* the program calls Update with the eventMsg of a done event
UpdateDone ==
    /\ model.counts.completed \in DoneCounts
    /\ \E n \in FeedNames, inst \in FeedInstances, st \in EventStatuses :
          /\ model' = Update(model, DoneEvent(n, inst, st, ""))
          /\ umsg' = DoneEvent(n, inst, st, "")
    /\ UNCHANGED <<outsideModel, fsent>>

NextModel ==
    \/ UpdateTick
    \/ UpdateStart
    \/ UpdateDone

SpecModel == InitModel /\ [][NextModel]_vars

\* the completed cases no status count took
Uncounted(m) ==
    m.counts.completed
        - (m.counts.passed + m.counts.failed + m.counts.nobase + m.counts.errored)

\* C37: after any sequence of tick, start and done messages, running is
\* the number of active entries and the log holds at most maxLog items; a
\* done event for an active name with one of the four statuses adds one to
\* completed and one to the count of its status, so completed stays equal to
\* passed + failed + no-baseline + errored as long as every such event
\* carries one of the four (one with another status adds to completed
\* alone); and Update with a done event whose name is not active returns the
\* model it was given.
C37_CountsAndLog ==
    /\ [](/\ model.counts.running = LenActive(model.active)
          /\ Len(model.logs) <= model.maxLog
          /\ Uncounted(model) >= 0)
    /\ [][Uncounted(model') =
             Uncounted(model)
                 + (IF /\ umsg'.Type = "done"
                       /\ model.active[umsg'.Name].present
                       /\ umsg'.Status \notin Statuses
                       /\ <<model, umsg>>' # <<model, umsg>>
                       THEN 1 ELSE 0)]_vars
    /\ [][(umsg'.Type = "done" /\ ~model.active[umsg'.Name].present) =>
             model' = model]_vars
    /\ [](\A n \in FeedNames, inst \in FeedInstances, st \in EventStatuses :
             ~model.active[n].present =>
                 Update(model, DoneEvent(n, inst, st, "")) = model)

\* C37 witness: two cases have completed, one passed and one errored, the
\* log of one item has dropped the older of the two, one entry is active,
\* and the last message was a done event with status fail for a name that
\* was not active, which no count took.
C37_Witness ==
    /\ model.counts.completed = 2
    /\ model.counts.passed = 1
    /\ model.counts.errored = 1
    /\ model.counts.failed = 0
    /\ model.maxLog = 1
    /\ model.logs = <<[name |-> 2, instance |-> 1, status |-> "error", err |-> ""]>>
    /\ model.counts.running = 1
    /\ umsg.Type = "done"
    /\ umsg.Status = "fail"
    /\ ~model.active[umsg.Name].present

=============================================================================
